---------------------------- MODULE Spec2Model ----------------------------
(***************************************************************************)
(* mobilespec: the structural consistency validation engine.               *)
(*                                                                         *)
(* One run of `validate` (src/src/validate/index.ts) followed by the CLI's *)
(* reportAndCode (src/src/bin/cli.ts) is a straight pipeline over an       *)
(* already loaded document set.  The document set (input) is chosen in     *)
(* Init; every stage of the pipeline is one action, and the loops whose    *)
(* single iterations matter (the navigation graph builder, the             *)
(* reachability traversal) advance one iteration per action.               *)
(*                                                                         *)
(* Strings are sequences of tokens, so that screenKey and displayId are    *)
(* real concatenations: "a" is <<"a">>, "a__x" is <<"a","__","x">>.  An    *)
(* absent optional string (undefined) and the empty string are both <<>>:  *)
(* the code tests them only for truthiness.                                *)
(***************************************************************************)
EXTENDS Integers, Sequences, FiniteSets, TLC

VARIABLES
  input,        \* the loaded document set, config, contract and CLI flags
  pc,           \* position of the run in the pipeline
  fi,           \* index of the flow file the builder is at
  ti,           \* index of the transition (inside file fi) the builder is at
  screens,      \* Map<string, Screen>, in insertion order
  transitions,  \* Transition[] produced by the builder
  l2Errors,     \* errors produced by the builder
  reachable,    \* Set<string> of the traversal
  queue,        \* queue of the traversal
  tdiags,       \* diagnostics array of validateTransitions
  parts,        \* the per-stage diagnostic lists of validate
  uiActions,    \* UIAction[]
  stateScreens, \* Set<string> of state screen keys
  diagnostics,  \* the merged list returned by validate
  exitCode,     \* the CLI's exit code (-1: not decided yet)
  written,      \* the artifacts the CLI generated under the specs directory
  ajv,          \* the process-wide AJV singleton and compile caches (lib/ajv.ts)
  run,          \* which validate call of this process is under way
  previous,     \* the outcome of the previous validate call of this process
  dequeued,     \* history: the keys the traversal has taken off its queue
  calls,        \* the call stack of extractRootKeysFromSchema
  rootKeys      \* the value the last extractRootKeysFromSchema call returned

vars == <<input, pc, fi, ti, screens, transitions, l2Errors, reachable, queue,
          tdiags, parts, uiActions, stateScreens, diagnostics, exitCode,
          written, ajv, run, previous, dequeued, calls, rootKeys>>

-----------------------------------------------------------------------------
(* Strings *)

NoStr == <<>>

Str(t) == <<t>>

\* Collation rank of a token (localeCompare: punctuation before letters).
TokenRank(t) ==
  CASE t = "__" -> 1
    [] t = "[" -> 2
    [] t = "]" -> 3
    [] t = "a" -> 11
    [] t = "b" -> 12
    [] t = "c" -> 13
    [] t = "x" -> 21
    [] t = "y" -> 22
    [] OTHER -> 30

RECURSIVE localeCompareLess(_, _)
localeCompareLess(a, b) ==
  IF a = <<>> THEN b # <<>>
  ELSE IF b = <<>> THEN FALSE
  ELSE IF Head(a) = Head(b) THEN localeCompareLess(Tail(a), Tail(b))
  ELSE TokenRank(Head(a)) < TokenRank(Head(b))

\* keys.ts
screenKey(id, context) ==
  IF context # NoStr THEN id \o <<"__">> \o context ELSE id

displayId(id, context) ==
  IF context # NoStr THEN id \o <<"[">> \o context \o <<"]">> ELSE id

-----------------------------------------------------------------------------
(* Sequence helpers *)

Range(s) == {s[i] : i \in 1..Len(s)}

RECURSIVE Flatten(_)
Flatten(ss) == IF ss = <<>> THEN <<>> ELSE Head(ss) \o Flatten(Tail(ss))

\* arr.sort((a, b) => a.label.localeCompare(b.label)): a stable insertion
\* of x into the sorted s, after every element that is not greater.
RECURSIVE InsertSorted(_, _)
InsertSorted(x, s) ==
  IF s = <<>> THEN <<x>>
  ELSE IF localeCompareLess(x.label, Head(s).label) THEN <<x>> \o s
  ELSE <<Head(s)>> \o InsertSorted(x, Tail(s))

RECURSIVE SortByLabel(_)
SortByLabel(s) ==
  IF s = <<>> THEN <<>>
  ELSE InsertSorted(s[Len(s)], SortByLabel(SubSeq(s, 1, Len(s) - 1)))

\* arr.sort((a, b) => a.localeCompare(b)) on strings.
SortStrings(s) ==
  LET r == SortByLabel([i \in 1..Len(s) |-> [label |-> s[i]]])
  IN [i \in 1..Len(r) |-> r[i].label]

\* The sequences of length at most n over S.
SeqUpTo(S, n) == UNION {[1..k -> S] : k \in 0..n}

-----------------------------------------------------------------------------
(* Diagnostics (src/src/validate/diagnostics.ts).  `message` is the fixed  *)
(* text of the message; what the code interpolates into it is in meta.     *)

Diag(code, level, message, meta) ==
  [code |-> code, level |-> level, message |-> message, meta |-> meta]

NoMeta == [none |-> TRUE]

schemaError(label, filePath) ==
  Diag(label \o "_INVALID", "error", "schema error",
       [label |-> label, filePath |-> filePath])

duplicateScreenId(key, id, context) ==
  Diag("L2_DUPLICATE_SCREEN_ID", "error", "Duplicate screen key",
       [key |-> key, id |-> id, context |-> context])

invalidTransitionTarget(fromKey, targetId, transitionId) ==
  Diag("L2_INVALID_TRANSITION_TO", "error", "target does not exist",
       [fromKey |-> fromKey, targetId |-> targetId,
        transitionId |-> transitionId])

targetContextNotFound(targetId, targetContext, fromKey, transitionId) ==
  Diag("L2_INVALID_TRANSITION_TO", "error", "targetContext not found",
       [targetId |-> targetId, targetContext |-> targetContext,
        fromKey |-> fromKey, transitionId |-> transitionId])

ambiguousTarget(targetId, options, fromKey, transitionId) ==
  Diag("L2_INVALID_TRANSITION_TO", "error", "Ambiguous target",
       [targetId |-> targetId, options |-> options,
        fromKey |-> fromKey, transitionId |-> transitionId])

l3ActionNotInL2(action, screenId, context, componentId) ==
  Diag("L3_ACTION_NOT_IN_L2", "error", "action not in L2",
       [action |-> action, screenId |-> screenId, context |-> context,
        componentId |-> componentId])

l2TransitionUnused(transitionId, screenId, context) ==
  Diag("L2_TRANSITION_UNUSED", "info", "unused transition",
       [transitionId |-> transitionId, screenId |-> screenId,
        context |-> context])

i18nMissingKey(locale, key) ==
  Diag("I18N_MISSING_KEY", "error", "key missing",
       [locale |-> locale, key |-> key])

i18nUntranslated(locale, key) ==
  Diag("I18N_UNTRANSLATED", "info", "untranslated",
       [locale |-> locale, key |-> key])

schemaNotFound(label) ==
  Diag(label \o "_SCHEMA_NOT_FOUND", "error", "schema file not found",
       [label |-> label])

-----------------------------------------------------------------------------
(* Schema validation (src/src/validate/schema.ts).  The structural schema  *)
(* validator is an external collaborator: a file carries the number of     *)
(* violations it reports for it.                                           *)

RECURSIVE Repeat(_, _)
Repeat(x, n) == IF n = 0 THEN <<>> ELSE <<x>> \o Repeat(x, n - 1)

validateSchema(files, label) ==
  IF label \notin input.schemas THEN <<schemaNotFound(label)>>
  ELSE Flatten([i \in 1..Len(files) |->
                  Repeat(schemaError(label, i), files[i].violations)])

-----------------------------------------------------------------------------
(* Navigation graph builder (src/src/validate/l2.ts,                        *)
(* collectScreensAndTransitions)                                           *)

flowFiles == input.flowFiles

ScreenOf(doc) ==
  [id |-> doc.id, context |-> doc.context, entry |-> doc.entry,
   exit |-> doc.exit, key |-> screenKey(doc.id, doc.context)]

screensHas(key) == \E i \in 1..Len(screens) : screens[i].key = key

screensGet(key) ==
  screens[CHOOSE i \in 1..Len(screens) : screens[i].key = key]

\* A registry that keeps only the variant registered last for an id.
variantsByIdLastOnly(id) ==
  LET v == SelectSeq(screens, LAMBDA s : s.id = id)
  IN IF v = <<>> THEN <<>> ELSE <<v[Len(v)]>>

\* variantsById.get(id) ?? []: the registered screens with this id, in
\* registration order (the code appends to it exactly when it registers).
variantsById(id) == SelectSeq(screens, LAMBDA s : s.id = id)

\* candidates.find((s) => s.context === targetContext)
FindContext(candidates, targetContext) ==
  SelectSeq(candidates, LAMBDA s : s.context = targetContext)

\* A builder that falls back to the first variant of an ambiguous target.
ResolveTransitionFirstVariant(fromKey, t) ==
  LET candidates == variantsById(t.target)
      edge(to) == [ok |-> TRUE,
                   edge |-> [fromKey |-> fromKey,
                             toKey |-> screenKey(to.id, to.context),
                             label |-> t.id,
                             self |-> (fromKey = screenKey(to.id, to.context))]]
      fail(d) == [ok |-> FALSE, error |-> d]
  IN IF Len(candidates) = 0
       THEN fail(invalidTransitionTarget(fromKey, t.target, t.id))
     ELSE IF t.targetContext # NoStr
       THEN LET hit == FindContext(candidates, t.targetContext)
            IN IF hit = <<>>
                 THEN fail(targetContextNotFound(t.target, t.targetContext,
                                                 fromKey, t.id))
                 ELSE edge(hit[1])
     ELSE edge(candidates[1])

\* A builder that trusts the target a transition names.
ResolveTransitionUnchecked(fromKey, t) ==
  [ok |-> TRUE,
   edge |-> [fromKey |-> fromKey,
             toKey |-> screenKey(t.target, t.targetContext),
             label |-> t.id,
             self |-> (fromKey = screenKey(t.target, t.targetContext))]]

\* The outcome of resolving one transition of the screen fromKey:
\* an edge, or an error.
ResolveTransition(fromKey, t) ==
  LET candidates == variantsById(t.target)
      edge(to) == [ok |-> TRUE,
                   edge |-> [fromKey |-> fromKey,
                             toKey |-> screenKey(to.id, to.context),
                             label |-> t.id,
                             self |-> (fromKey = screenKey(to.id, to.context))]]
      fail(d) == [ok |-> FALSE, error |-> d]
  IN IF Len(candidates) = 0
       THEN fail(invalidTransitionTarget(fromKey, t.target, t.id))
     ELSE IF t.targetContext # NoStr
       THEN LET hit == FindContext(candidates, t.targetContext)
            IN IF hit = <<>>
                 THEN fail(targetContextNotFound(t.target, t.targetContext,
                                                 fromKey, t.id))
                 ELSE edge(hit[1])
     ELSE IF Len(candidates) = 1
       THEN edge(candidates[1])
     ELSE fail(ambiguousTarget(
                 t.target,
                 [i \in 1..Len(candidates) |->
                    displayId(candidates[i].id, candidates[i].context)],
                 fromKey, t.id))

\* validate, index.ts 68-80: load, then schema validation of the three layers.
Start ==
  /\ pc = "start"
  /\ parts' = [parts EXCEPT
                 !.l2Schema = validateSchema(input.flowFiles, "L2"),
                 !.l3Schema = validateSchema(input.uiFiles, "L3"),
                 !.l4Schema = validateSchema(input.stateFiles, "L4")]
  /\ pc' = "collectScreens"
  /\ fi' = 1
  /\ UNCHANGED <<input, dequeued, calls, rootKeys, ajv, run, previous, ti, screens, transitions, l2Errors, reachable, queue,
                 tdiags, uiActions, stateScreens, diagnostics, exitCode, written>>

\* index.ts 85-100: what safeRun makes of an exception of the builder.
l2ParseFailed ==
  Diag("L2_INVALID", "error", "L2 parse failed", NoMeta)

\* l2.ts 42-74: one iteration of the first loop.  A file whose YAML is empty
\* has no data, so reading doc.screen (l2.ts 44) throws; safeRun
\* (index.ts 48-58) turns that into one diagnostic and validate goes on
\* with no screens, no transitions and no builder errors (index.ts 97-100).
CollectScreen ==
  /\ pc = "collectScreens"
  /\ fi <= Len(flowFiles)
  /\ IF flowFiles[fi].malformed
       THEN /\ parts' = [parts EXCEPT !.l2Fatal = <<l2ParseFailed>>]
            /\ screens' = <<>>
            /\ l2Errors' = <<>>
            /\ pc' = "collectTransitions"
            /\ fi' = Len(flowFiles) + 1
       ELSE /\ LET s == ScreenOf(flowFiles[fi])
               IN IF screensHas(s.key)
                    THEN /\ l2Errors' =
                              Append(l2Errors,
                                     duplicateScreenId(s.key, s.id, s.context))
                         /\ screens' = screens
                    ELSE /\ screens' = Append(screens, s)
                         /\ l2Errors' = l2Errors
            /\ fi' = fi + 1
            /\ UNCHANGED <<pc, parts>>
  /\ UNCHANGED <<input, dequeued, calls, rootKeys, ajv, run, previous, ti, transitions, reachable,
                 queue, tdiags, uiActions, stateScreens, diagnostics,
                 exitCode, written>>

\* l2.ts 74-79: the first loop is over; the second starts.
CollectScreensDone ==
  /\ pc = "collectScreens"
  /\ fi > Len(flowFiles)
  /\ pc' = "collectTransitions"
  /\ fi' = 1
  /\ ti' = 1
  /\ UNCHANGED <<input, dequeued, calls, rootKeys, ajv, run, previous, screens, transitions, l2Errors, reachable, queue,
                 tdiags, parts, uiActions, stateScreens, diagnostics, exitCode, written>>

\* l2.ts 87-123: one iteration of the inner loop of the second loop.
CollectTransition ==
  /\ pc = "collectTransitions"
  /\ fi <= Len(flowFiles)
  /\ ti <= Len(flowFiles[fi].transitions)
  /\ LET doc == flowFiles[fi]
         r == ResolveTransition(screenKey(doc.id, doc.context),
                                doc.transitions[ti])
     IN IF r.ok
          THEN /\ transitions' = Append(transitions, r.edge)
               /\ l2Errors' = l2Errors
          ELSE /\ l2Errors' = Append(l2Errors, r.error)
               /\ transitions' = transitions
  /\ ti' = ti + 1
  /\ UNCHANGED <<input, dequeued, calls, rootKeys, ajv, run, previous, pc, fi, screens, reachable, queue, tdiags, parts,
                 uiActions, stateScreens, diagnostics, exitCode, written>>

\* l2.ts 79-87: the next file of the second loop.
NextFlowFile ==
  /\ pc = "collectTransitions"
  /\ fi <= Len(flowFiles)
  /\ ti > Len(flowFiles[fi].transitions)
  /\ fi' = fi + 1
  /\ ti' = 1
  /\ UNCHANGED <<input, dequeued, calls, rootKeys, ajv, run, previous, pc, screens, transitions, l2Errors, reachable, queue,
                 tdiags, parts, uiActions, stateScreens, diagnostics, exitCode,
          written, ajv, run, previous>>

-----------------------------------------------------------------------------
(* Reachability analyzer (src/src/validate/l2.ts, validateTransitions)     *)

entryKeysOf == 
  LET e == SelectSeq(screens, LAMBDA s : s.entry)
  IN [i \in 1..Len(e) |-> e[i].key]

\* l2.ts 151-183
EntryDiagnostic(entryKeys) ==
  IF Len(entryKeys) = 0
    THEN Diag("L2_INVALID", "error", "no entry screen", NoMeta)
  ELSE IF Len(entryKeys) >= 2
    THEN Diag("L2_INVALID", "info", "multiple entry screens",
              [entryKeys |-> entryKeys])
  ELSE Diag("L2_INVALID", "info", "entry screen", [entryKeys |-> entryKeys])

\* A traversal that enqueues every successor, visited or not.
VisitUnmarked(nexts, reach, q) ==
  [reachable |-> reach \cup Range(nexts), queue |-> q \o nexts]

\* for (const n of nexts) if (!reachable.has(n)) { add; push }
RECURSIVE Visit(_, _, _)
Visit(nexts, reach, q) ==
  IF nexts = <<>> THEN [reachable |-> reach, queue |-> q]
  ELSE IF Head(nexts) \notin reach
    THEN Visit(Tail(nexts), reach \cup {Head(nexts)}, Append(q, Head(nexts)))
  ELSE Visit(Tail(nexts), reach, q)

\* outgoingByFrom.get(cur) ?? []
outgoingByFrom(cur) ==
  LET out == SelectSeq(transitions, LAMBDA t : t.fromKey = cur)
  IN [i \in 1..Len(out) |-> out[i].toKey]

\* l2.ts 215-235
UnreachableDiagnostics(reach) ==
  LET un == SelectSeq(screens, LAMBDA s : s.key \notin reach)
      unreachable == SortByLabel([i \in 1..Len(un) |->
                        [key |-> un[i].key,
                         label |-> displayId(un[i].id, un[i].context)]])
  IN IF Len(unreachable) > 0
       THEN <<Diag("L2_INVALID", "error", "unreachable screens",
                   [count |-> Len(unreachable),
                    keys |-> [i \in 1..Len(unreachable) |->
                                unreachable[i].key]])>>
       ELSE <<>>

\* A dead-end report that does not look at the exit mark.
NoOutgoingIgnoringExit ==
  LET screensWithOutgoing == {transitions[i].fromKey : i \in 1..Len(transitions)}
      no == SelectSeq(screens, LAMBDA s : s.key \notin screensWithOutgoing)
  IN IF Len(no) > 0
       THEN <<Diag("L2_INVALID_TRANSITION_TO", "info", "no outgoing transition",
                   [count |-> Len(no),
                    keys |-> [i \in 1..Len(no) |-> no[i].key]])>>
       ELSE <<>>

\* l2.ts 237-260
NoOutgoingDiagnostics ==
  LET screensWithOutgoing == {transitions[i].fromKey : i \in 1..Len(transitions)}
      no == SelectSeq(screens,
                      LAMBDA s : ~s.exit /\ s.key \notin screensWithOutgoing)
      noOutgoing == SortByLabel([i \in 1..Len(no) |->
                        [key |-> no[i].key,
                         label |-> displayId(no[i].id, no[i].context)]])
  IN IF Len(noOutgoing) > 0
       THEN <<Diag("L2_INVALID_TRANSITION_TO", "info", "no outgoing transition",
                   [count |-> Len(noOutgoing),
                    keys |-> [i \in 1..Len(noOutgoing) |-> noOutgoing[i].key]])>>
       ELSE <<>>

\* index.ts 104: l2Warnings.map((d) => ({ ...d, level: 'info' }))
AsInfo(ds) == [i \in 1..Len(ds) |-> [ds[i] EXCEPT !.level = "info"]]

\* The builder returns (l2.ts 126, index.ts 85-100); validateTransitions
\* starts: the entry policy and the seeding of the traversal (l2.ts 143-194).
ValidateEntries ==
  /\ pc = "collectTransitions"
  /\ fi > Len(flowFiles)
  /\ parts' = [parts EXCEPT !.l2Errors = l2Errors]
  /\ tdiags' = <<EntryDiagnostic(entryKeysOf)>>
  /\ LET seed == Visit(entryKeysOf, {}, <<>>)
     IN /\ reachable' = seed.reachable
        /\ queue' = seed.queue
  /\ pc' = "traverse"
  /\ UNCHANGED <<input, dequeued, calls, rootKeys, ajv, run, previous, fi, ti, screens, transitions, l2Errors, uiActions,
                 stateScreens, diagnostics, exitCode, written>>

\* l2.ts 204-213: one iteration of the while loop.
TraverseStep ==
  /\ pc = "traverse"
  /\ queue # <<>>
  /\ LET r == Visit(outgoingByFrom(Head(queue)), reachable, Tail(queue))
     IN /\ reachable' = r.reachable
        /\ queue' = r.queue
  /\ dequeued' = Append(dequeued, Head(queue))
  /\ UNCHANGED <<input, calls, rootKeys, ajv, run, previous, pc, fi, ti, screens, transitions, l2Errors, tdiags,
                 parts, uiActions, stateScreens, diagnostics, exitCode, written>>

\* l2.ts 215-262: the traversal is over; validateTransitions returns and
\* validate maps what it returned (index.ts 102-104).
ValidateFinish ==
  /\ pc = "traverse"
  /\ queue = <<>>
  /\ LET ds == tdiags \o UnreachableDiagnostics(reachable)
                     \o NoOutgoingDiagnostics
     IN /\ tdiags' = ds
        /\ parts' = [parts EXCEPT !.l2Infos = AsInfo(ds)]
  /\ pc' = "l3"
  /\ UNCHANGED <<input, dequeued, calls, rootKeys, ajv, run, previous, fi, ti, screens, transitions, l2Errors, reachable,
                 queue, uiActions, stateScreens, diagnostics, exitCode, written>>

-----------------------------------------------------------------------------
(* UI layer (src/src/validate/l3.ts)                                       *)

\* l3.ts 44-67: traverse(node), for a UI file of (screenId, context).
RECURSIVE traverse(_, _, _)
traverse(node, screenId, context) ==
  (IF node.action # NoStr
     THEN <<[screenId |-> screenId, context |-> context,
             componentId |-> IF node.id # NoStr THEN node.id
                             ELSE Str("(no-id)"),
             action |-> node.action]>>
     ELSE <<>>)
  \o Flatten([i \in 1..Len(node.children) |->
                traverse(node.children[i], screenId, context)])
  \o Flatten([i \in 1..Len(node.layoutChildren) |->
                traverse(node.layoutChildren[i], screenId, context)])

\* l3.ts 34-75
collectUIActions(uiFiles) ==
  Flatten([i \in 1..Len(uiFiles) |->
             traverse(uiFiles[i].layout, uiFiles[i].id, uiFiles[i].context)])

\* l3.ts 80-104
validateL3ScreensExistInL2(uiFiles) ==
  LET bad == SelectSeq([i \in 1..Len(uiFiles) |-> [f |-> uiFiles[i], path |-> i]],
               LAMBDA e : ~screensHas(screenKey(e.f.id, e.f.context)))
  IN [i \in 1..Len(bad) |->
        Diag("L3_UNKNOWN_SCREEN", "error", "L3 screen not in L2",
             [filePath |-> bad[i].path, screenId |-> bad[i].f.id,
              context |-> bad[i].f.context,
              key |-> screenKey(bad[i].f.id, bad[i].f.context)])]

\* l3.ts 113-119: the set of transition ids the actions are matched against.
transitionIds(trans) ==
  {trans[i].label : i \in {j \in 1..Len(trans) : trans[j].label # NoStr}}

\* l3.ts 110-131
validateL3L2Cross(actions, trans) ==
  LET bad == SelectSeq(actions,
                       LAMBDA a : a.action \notin transitionIds(trans))
  IN [i \in 1..Len(bad) |->
        l3ActionNotInL2(bad[i].action, bad[i].screenId, bad[i].context,
                        bad[i].componentId)]

\* l3.ts 133-153
validateL2TransitionsUsedByL3(actions, trans) ==
  LET used == {actions[i].action : i \in 1..Len(actions)}
      un == SelectSeq(trans, LAMBDA t : t.label # NoStr /\ t.label \notin used)
  IN [i \in 1..Len(un) |->
        LET from == IF screensHas(un[i].fromKey)
                      THEN screensGet(un[i].fromKey)
                      ELSE [id |-> NoStr, context |-> NoStr]
        IN l2TransitionUnused(un[i].label, from.id, from.context)]

\* index.ts 115-146: the unused transitions, folded into one info.
l2UnusedDiagnosticsOf(rawUnused) ==
  LET unusedItems == SelectSeq(rawUnused,
                               LAMBDA d : d.code = "L2_TRANSITION_UNUSED")
  IN IF Len(unusedItems) > 0
       THEN <<Diag("L2_TRANSITION_UNUSED", "info", "unused transitions",
                   [count |-> Len(unusedItems)])>>
       ELSE <<>>

\* index.ts 109-146
L3Stage ==
  /\ pc = "l3"
  /\ LET actions == collectUIActions(input.uiFiles)
     IN /\ uiActions' = actions
        /\ parts' = [parts EXCEPT
             !.l3Screen = validateL3ScreensExistInL2(input.uiFiles),
             !.cross = validateL3L2Cross(actions, transitions),
             !.l2Unused = l2UnusedDiagnosticsOf(
                            validateL2TransitionsUsedByL3(actions, transitions))]
  /\ pc' = "l4"
  /\ UNCHANGED <<input, dequeued, calls, rootKeys, ajv, run, previous, fi, ti, screens, transitions, l2Errors, reachable,
                 queue, tdiags, stateScreens, diagnostics, exitCode, written>>

-----------------------------------------------------------------------------
(* State layer (src/src/validate/l4.ts)                                    *)

\* Keep the first occurrence of every element (a Set's insertion order).
RECURSIVE Dedup(_)
Dedup(s) ==
  IF s = <<>> THEN <<>>
  ELSE LET r == Dedup(SubSeq(s, 1, Len(s) - 1))
       IN IF s[Len(s)] \in Range(r) THEN r ELSE Append(r, s[Len(s)])

\* l4.ts 30-42
collectStateScreens(stateFiles) ==
  Dedup([i \in 1..Len(stateFiles) |->
           screenKey(stateFiles[i].id, stateFiles[i].context)])

\* l4.ts 48-67
validateL4L2Cross(keys) ==
  LET bad == SelectSeq(keys, LAMBDA k : ~screensHas(k))
  IN [i \in 1..Len(bad) |->
        Diag("L4_UNKNOWN_SCREEN", "error", "state screen not in L2",
             [screenKey |-> bad[i]])]

\* l4.ts 82-124: Map<screenKey, L4Details>; a later file with the same key
\* replaces the details of the earlier one.
collectL4Details(stateFiles) ==
  LET keys == collectStateScreens(stateFiles)
      last(k) == stateFiles[CHOOSE i \in 1..Len(stateFiles) :
                   /\ screenKey(stateFiles[i].id, stateFiles[i].context) = k
                   /\ \A j \in (i + 1)..Len(stateFiles) :
                        screenKey(stateFiles[j].id, stateFiles[j].context) # k]
  IN [i \in 1..Len(keys) |->
        LET f == last(keys[i])
        IN [screenId |-> f.id, context |-> f.context, screenKey |-> keys[i],
            queries |-> {f.queries[j].name : j \in 1..Len(f.queries)},
            mutations |-> {f.mutations[j].name : j \in 1..Len(f.mutations)},
            events |-> f.events]]

\* A lookup that takes the transition ids of all screens together.
transitionIdsOfAnyScreen(sk, trans) ==
  {trans[i].label : i \in {j \in 1..Len(trans) : trans[j].label # NoStr}}

\* l4.ts 143-151
transitionIdsByScreenKey(sk, trans) ==
  {trans[i].label : i \in {j \in 1..Len(trans) :
                              trans[j].label # NoStr /\ trans[j].fromKey = sk}}

\* l4.ts 190-197: is the event a callQuery naming no declared query?
IsUnknownQuery(d, ev) ==
  ev.type = "callQuery" /\ (ev.ref = NoStr \/ ev.ref \notin d.queries)

\* l4.ts 200-207
IsUnknownMutation(d, ev) ==
  ev.type = "callMutation" /\ (ev.ref = NoStr \/ ev.ref \notin d.mutations)

Sum(f, S) ==
  LET RECURSIVE go(_)
      go(T) == IF T = {} THEN 0
               ELSE LET x == CHOOSE y \in T : TRUE IN f[x] + go(T \ {x})
  IN go(S)

\* l4.ts 135-295
validateL4EventsCross(l4Details, trans) ==
  LET N == 1..Len(l4Details)
      disp(i) == displayId(l4Details[i].screenId, l4Details[i].context)
      eventKeys(i) == {l4Details[i].events[j].key :
                         j \in 1..Len(l4Details[i].events)}
      l2Ids(i) == transitionIdsByScreenKey(l4Details[i].screenKey, trans)
      missing == [i \in N |-> Cardinality(l2Ids(i) \ eventKeys(i))]
      stale == [i \in N |-> Cardinality(eventKeys(i) \ l2Ids(i))]
      unknownQ == [i \in N |->
                     Cardinality({j \in 1..Len(l4Details[i].events) :
                        IsUnknownQuery(l4Details[i], l4Details[i].events[j])})]
      unknownM == [i \in N |->
                     Cardinality({j \in 1..Len(l4Details[i].events) :
                        IsUnknownMutation(l4Details[i], l4Details[i].events[j])})]
      \* the sorted keys of a bucket map: the screens with an item in it
      bucket(cnt) ==
        LET hit == SelectSeq([i \in N |-> i], LAMBDA i : cnt[i] > 0)
        IN SortStrings(Dedup([k \in 1..Len(hit) |-> disp(hit[k])]))
      grouped(code, level, message, cnt) ==
        IF bucket(cnt) # <<>>
          THEN <<Diag(code, level, message,
                      [screens |-> bucket(cnt), count |-> Sum(cnt, N)])>>
          ELSE <<>>
      plain(code, level, message, cnt) ==
        IF bucket(cnt) # <<>>
          THEN <<Diag(code, level, message, [screens |-> bucket(cnt)])>>
          ELSE <<>>
  IN grouped("L2_TRANSITION_NOT_IN_L4", "info", "transition without event",
             missing)
     \o grouped("L3_UNKNOWN_TRANSITION", "info", "event without transition",
                stale)
     \o plain("L4_UNKNOWN_QUERY", "error", "unknown query", unknownQ)
     \o plain("L4_UNKNOWN_MUTATION", "error", "unknown mutation", unknownM)

\* index.ts 151-157
L4Stage ==
  /\ pc = "l4"
  /\ LET keys == collectStateScreens(input.stateFiles)
     IN /\ stateScreens' = keys
        /\ parts' = [parts EXCEPT
             !.l4Errors = validateL4L2Cross(keys),
             !.l4EventInfos = AsInfo(validateL4EventsCross(
                                collectL4Details(input.stateFiles), transitions))]
  /\ pc' = "i18n"
  /\ UNCHANGED <<input, dequeued, calls, rootKeys, ajv, run, previous, fi, ti, screens, transitions, l2Errors, reachable,
                 queue, tdiags, uiActions, diagnostics, exitCode, written>>

-----------------------------------------------------------------------------
(* Translation-key audit (src/src/validate/i18n.ts)                        *)

screenPrefix(screenId, context) ==
  IF context # NoStr THEN <<"app.screen.">> \o screenId \o <<".ctx.">> \o context
  ELSE <<"app.screen.">> \o screenId

Reverse(s) == [i \in 1..Len(s) |-> s[Len(s) + 1 - i]]

\* i18n.ts 43-69: the stack pops the last pushed child first.
RECURSIVE labelKeys(_, _)
labelKeys(node, prefix) ==
  (IF node.named /\ node.id # NoStr
     THEN <<prefix \o <<".component.">> \o node.id \o <<".label">>>>
     ELSE <<>>)
  \o Flatten(Reverse([i \in 1..Len(node.children \o node.layoutChildren) |->
                labelKeys((node.children \o node.layoutChildren)[i], prefix)]))

\* i18n.ts 18-73
collectExpectedI18nKeys(uiFiles) ==
  Dedup([i \in 1..Len(screens) |->
           screenPrefix(screens[i].id, screens[i].context) \o <<".title">>]
        \o Flatten([i \in 1..Len(uiFiles) |->
              labelKeys(uiFiles[i].layout,
                        screenPrefix(uiFiles[i].id, uiFiles[i].context))]))

\* i18n.ts 132-144, for one locale
localeDiagnostics(loc, dict, expectedKeys) ==
  Flatten([i \in 1..Len(expectedKeys) |->
    IF expectedKeys[i] \notin dict.present
      THEN <<i18nMissingKey(loc, expectedKeys[i])>>
    ELSE IF loc # "ja" /\ expectedKeys[i] \in dict.empty
      THEN <<i18nUntranslated(loc, expectedKeys[i])>>
    ELSE <<>>])

\* i18n.ts 90-147
validateI18n(i18n, uiFiles) ==
  LET expectedKeys == collectExpectedI18nKeys(uiFiles)
      locales == i18n.locales
  IN IF Len(locales) = 0 THEN <<>>
     ELSE (IF "ja" \notin Range(locales)
             THEN <<Diag("I18N_MISSING_KEY", "error", "ja not in locales",
                         [locales |-> locales])>>
             ELSE <<>>)
          \o Flatten([i \in 1..Len(locales) |->
                localeDiagnostics(locales[i], i18n.dict[locales[i]],
                                  expectedKeys)])

\* i18n.ts 83-88, 126-130: JSON.parse throws on a dictionary file that is
\* no JSON (a missing or empty file is an empty dictionary).
readJsonMapThrows(i18n) ==
  \E i \in 1..Len(i18n.locales) : ~i18n.dict[i18n.locales[i]].parses

\* index.ts 162; nothing catches what validateI18n throws.
I18nStage ==
  /\ pc = "i18n"
  /\ IF readJsonMapThrows(input.i18n)
       THEN /\ parts' = parts
            /\ pc' = "rejected"
       ELSE /\ parts' = [parts EXCEPT
                           !.i18n = validateI18n(input.i18n, input.uiFiles)]
            /\ pc' = "openapi"
  /\ UNCHANGED <<input, dequeued, calls, rootKeys, ajv, run, previous, fi, ti, screens, transitions, l2Errors, reachable,
                 queue, tdiags, uiActions, stateScreens, diagnostics, exitCode,
                 written>>

-----------------------------------------------------------------------------
(* Schema compilation cache (src/lib/ajv.ts)                               *)

\* A path is the sequence of its segments; an absolute one starts at "/".
Cwd == <<"/", "w">>

IsAbsolute(p) == Len(p) > 0 /\ p[1] = "/"

\* path.resolve: "." segments are dropped and a relative path is taken from
\* the working directory.
resolve(p) ==
  LET q == SelectSeq(p, LAMBDA x : x # ".")
  IN IF IsAbsolute(q) THEN q ELSE Cwd \o q

\* A schema without $id, and the absence of a validator.
NoId == ""
NoValidator == 0

\* ajv.ts 19-24: no singleton yet, both caches empty.  registry is the
\* singleton's own id -> validator table; compiles lists the schemas handed
\* to ajv.compile and calls the outcome of every compileSchema call.
FreshAjv ==
  [compiledByPath |-> <<>>, compiledById |-> <<>>, registry |-> <<>>,
   compiles |-> <<>>, calls |-> <<>>]

\* ajv.getSchema(id)
getSchema(c, id) ==
  IF id \in DOMAIN c.registry THEN c.registry[id] ELSE NoValidator

\* A compileSchema call that returns the validator v.
Returned(c, abs, v) ==
  [ok |-> TRUE, validator |-> v,
   ajv |-> [c EXCEPT !.calls = Append(@, [abs |-> abs, validator |-> v,
                                          error |-> ""])]]

\* A compileSchema call that throws.
Thrown(c, abs, error) ==
  [ok |-> FALSE, validator |-> NoValidator,
   ajv |-> [c EXCEPT !.calls = Append(@, [abs |-> abs,
                                          validator |-> NoValidator,
                                          error |-> error])]]

\* ajv.compile(schema): AJV keeps schemas by $id and throws when the $id is
\* registered already; otherwise the schema is registered and a new
\* validator (numbered by its position in compiles) is returned.
AjvCompile(c, abs, id) ==
  IF id # NoId /\ id \in DOMAIN c.registry
    THEN Thrown(c, abs, "already exists")
  ELSE LET v == Len(c.compiles) + 1
           d == [c EXCEPT
                   !.compiles = Append(@, [abs |-> abs, id |-> id]),
                   !.registry = IF id # NoId THEN (id :> v) @@ @ ELSE @,
                   !.compiledByPath = (abs :> v) @@ @,
                   !.compiledById = IF id # NoId THEN (id :> v) @@ @ ELSE @]
       IN Returned(d, abs, v)

\* A compileSchema that looks no $id up before it compiles.
compileSchemaByPathOnly(c, files, schemaPath) ==
  LET abs == resolve(schemaPath)
  IN IF abs \in DOMAIN c.compiledByPath
       THEN Returned(c, abs, c.compiledByPath[abs])
     ELSE IF abs \notin DOMAIN files
       THEN Thrown(c, abs, "Schema not found")
     ELSE AjvCompile(c, abs, files[abs])

\* A compileSchema without caches: every call compiles on the singleton.
compileSchemaUncached(c, files, schemaPath) ==
  LET abs == resolve(schemaPath)
  IN IF abs \notin DOMAIN files THEN Thrown(c, abs, "Schema not found")
     ELSE AjvCompile(c, abs, files[abs])

\* ajv.ts 41-73.  files maps the absolute path of each existing schema file
\* to the $id of its schema (NoId when it has none).
compileSchema(c, files, schemaPath) ==
  LET abs == resolve(schemaPath)
  IN IF abs \in DOMAIN c.compiledByPath
       THEN Returned(c, abs, c.compiledByPath[abs])
     ELSE IF abs \notin DOMAIN files
       THEN Thrown(c, abs, "Schema not found")
     ELSE LET id == files[abs]
              cachedById ==
                IF id = NoId THEN NoValidator
                ELSE IF id \in DOMAIN c.compiledById THEN c.compiledById[id]
                ELSE getSchema(c, id)
          IN IF cachedById # NoValidator
               THEN Returned([c EXCEPT
                                !.compiledById = (id :> cachedById) @@ @,
                                !.compiledByPath = (abs :> cachedById) @@ @],
                             abs, cachedById)
               ELSE AjvCompile(c, abs, id)

\* ajv.ts 75-77
compileSchemaFromDir(c, files, schemaDir, filename) ==
  compileSchema(c, files, schemaDir \o <<filename>>)

-----------------------------------------------------------------------------
(* External contract resolver (src/src/openapiCheck.ts)                    *)

HttpMethods ==
  {"get", "put", "post", "delete", "options", "head", "patch", "trace"}

RefDepthLimit == 16

Unresolved(reason) == [kind |-> "unresolved", reason |-> reason]

Keys(ks) == [kind |-> "keys", keys |-> ks]

\* No schema has been resolved yet.
NoRootKeys == [kind |-> "none"]

\* openapiCheck.ts 119-131: a $ref names a schema of the document's
\* components; anything else (an external file, a missing name) is null.
CanResolve(doc, ref) == ref \in DOMAIN doc.components

resolveJsonPointer(doc, ref) == doc.components[ref]

\* A resolver without the depth cap.
RefDepthNeverExceeded(depth) == depth < 0

\* openapiCheck.ts 134: the guard that ends a chain of nested calls.
RefDepthExceeded(depth) == depth > RefDepthLimit

\* A resolver that adds the keys of the allOf members to the schema's own
\* properties.
RECURSIVE extractRootKeysMergingAllOf(_, _, _)
extractRootKeysMergingAllOf(doc, schema, depth) ==
  IF RefDepthExceeded(depth) THEN Unresolved("ref depth limit")
  ELSE IF schema.ref # ""
    THEN IF ~CanResolve(doc, schema.ref) THEN Unresolved("cannot resolve $ref")
         ELSE extractRootKeysMergingAllOf(doc, resolveJsonPointer(doc, schema.ref),
                                          depth + 1)
  ELSE IF schema.hasProperties \/ schema.hasAllOf
    THEN LET rs == [i \in 1..Len(schema.allOf) |->
                      extractRootKeysMergingAllOf(doc, schema.allOf[i], depth + 1)]
             hit == {i \in 1..Len(rs) : rs[i].kind = "keys"}
             own == IF schema.hasProperties THEN schema.properties ELSE {}
         IN IF hit # {} \/ schema.hasProperties
              THEN Keys(own \cup UNION {rs[i].keys : i \in hit})
              ELSE Unresolved("allOf but no properties")
  ELSE IF schema.oneOf THEN Unresolved("oneOf schema")
  ELSE IF schema.anyOf THEN Unresolved("anyOf schema")
  ELSE Unresolved("schema.properties is missing")

\* openapiCheck.ts 133-166
RECURSIVE extractRootKeysFromSchema(_, _, _)
extractRootKeysFromSchema(doc, schema, depth) ==
  IF RefDepthExceeded(depth) THEN Unresolved("ref depth limit")
  ELSE IF schema.ref # ""
    THEN IF ~CanResolve(doc, schema.ref) THEN Unresolved("cannot resolve $ref")
         ELSE extractRootKeysFromSchema(doc, resolveJsonPointer(doc, schema.ref),
                                        depth + 1)
  ELSE IF schema.hasProperties THEN Keys(schema.properties)
  ELSE IF schema.hasAllOf
    THEN LET rs == [i \in 1..Len(schema.allOf) |->
                      extractRootKeysFromSchema(doc, schema.allOf[i], depth + 1)]
             hit == {i \in 1..Len(rs) : rs[i].kind = "keys"}
         IN IF hit # {} THEN Keys(UNION {rs[i].keys : i \in hit})
            ELSE Unresolved("allOf but no properties")
  ELSE IF schema.oneOf THEN Unresolved("oneOf schema")
  ELSE IF schema.anyOf THEN Unresolved("anyOf schema")
  ELSE Unresolved("schema.properties is missing")

\* One activation of extractRootKeysFromSchema: its arguments and, for a
\* schema it treats as allOf, the loop's index and the locals merged and any.
Frame(schema, depth) ==
  [schema |-> schema, depth |-> depth, i |-> 0, merged |-> {}, any |-> FALSE]

\* Nested calls the model follows; the code never nests deeper than
\* RefDepthLimit + 1.
MaxCallDepth == 18

\* A loop that keeps the keys of the last member only.
mergeKeysOfLastMember(merged, any, r) ==
  [any |-> any \/ r.kind = "keys",
   merged |-> IF r.kind = "keys" THEN r.keys ELSE merged]

\* openapiCheck.ts 152-156: the body of the allOf loop on the result r of
\* one member.
mergeKeys(merged, any, r) ==
  [any |-> any \/ r.kind = "keys",
   merged |-> IF r.kind = "keys" THEN merged \cup r.keys ELSE merged]

\* openapiCheck.ts 134-147, 162-165: the activation on top of the stack
\* runs up to its first nested call, or returns.
ExtractCall ==
  /\ pc = "extract"
  /\ calls # <<>>
  /\ Head(calls).depth <= MaxCallDepth
  /\ LET f == Head(calls)
         rest == Tail(calls)
         return(v) == /\ rootKeys' = v
                      /\ calls' = rest
                      /\ pc' = "extractReturn"
         nested(schema, caller) ==
                      /\ calls' = <<Frame(schema, f.depth + 1)>> \o caller \o rest
                      /\ UNCHANGED <<rootKeys, pc>>
     IN IF RefDepthExceeded(f.depth) THEN return(Unresolved("ref depth limit"))
        ELSE IF f.schema.ref # ""
          THEN IF ~CanResolve(input, f.schema.ref)
                 THEN return(Unresolved("cannot resolve $ref"))
                 ELSE nested(resolveJsonPointer(input, f.schema.ref), <<>>)
        ELSE IF f.schema.hasProperties THEN return(Keys(f.schema.properties))
        ELSE IF f.schema.hasAllOf
          THEN IF f.schema.allOf = <<>>
                 THEN return(Unresolved("allOf but no properties"))
                 ELSE nested(f.schema.allOf[1], <<[f EXCEPT !.i = 1]>>)
        ELSE IF f.schema.oneOf THEN return(Unresolved("oneOf schema"))
        ELSE IF f.schema.anyOf THEN return(Unresolved("anyOf schema"))
        ELSE return(Unresolved("schema.properties is missing"))
  /\ UNCHANGED <<input, fi, ti, screens, transitions, l2Errors, reachable,
                 queue, tdiags, parts, uiActions, stateScreens, diagnostics,
                 exitCode, written, ajv, run, previous, dequeued>>

\* openapiCheck.ts 148-160: a nested call has returned rootKeys to the
\* allOf loop of its caller, which merges it and goes on to the next
\* member or returns; with no caller left, the outermost call has returned.
ExtractReturn ==
  /\ pc = "extractReturn"
  /\ IF calls = <<>>
       THEN /\ pc' = "extracted"
            /\ UNCHANGED <<calls, rootKeys>>
       ELSE LET f == Head(calls)
                rest == Tail(calls)
                any == mergeKeys(f.merged, f.any, rootKeys).any
                merged == mergeKeys(f.merged, f.any, rootKeys).merged
            IN IF f.i < Len(f.schema.allOf)
                 THEN /\ calls' = <<Frame(f.schema.allOf[f.i + 1], f.depth + 1),
                                    [f EXCEPT !.i = f.i + 1, !.merged = merged,
                                              !.any = any]>> \o rest
                      /\ pc' = "extract"
                      /\ UNCHANGED rootKeys
                 ELSE /\ rootKeys' = IF any THEN Keys(merged)
                                     ELSE Unresolved("allOf but no properties")
                      /\ calls' = rest
                      /\ UNCHANGED pc
  /\ UNCHANGED <<input, fi, ti, screens, transitions, l2Errors, reachable,
                 queue, tdiags, parts, uiActions, stateScreens, diagnostics,
                 exitCode, written, ajv, run, previous, dequeued>>

\* openapiCheck.ts 82-109: the responses in ascending code order; the
\* first 2xx one with a JSON body that has a schema.
Is2xxJson(r) == r.code >= 200 /\ r.code <= 299 /\ r.jsonSchema

HasFirst2xxJsonSchema(op) ==
  \E i \in 1..Len(op.responses) : Is2xxJson(op.responses[i])

pickFirst2xxJsonSchema(op) ==
  LET ok == {i \in 1..Len(op.responses) : Is2xxJson(op.responses[i])}
      first == CHOOSE i \in ok :
                 \A j \in ok : op.responses[i].code <= op.responses[j].code
  IN op.responses[first].schema

\* A registry that takes every key of a path item for an operation.
IsOperationAnyKey(o) == o.method = o.method

\* openapiCheck.ts 182-192: the operations that count, and their labels.
IsOperation(o) == o.method \in HttpMethods

OpLabel(o) == <<o.method, o.path>>

HasOperationId(o) == o.operationId # NoStr

\* openapiCheck.ts 168-217
collectOperationIdsFromOpenApi(doc) ==
  LET ops == SelectSeq(doc.ops, IsOperation)
      named == SelectSeq(ops, HasOperationId)
      unnamed == SelectSeq(ops, LAMBDA o : ~HasOperationId(o))
      ids == Dedup([i \in 1..Len(named) |-> named[i].operationId])
      where(id) == LET w == SelectSeq(named, LAMBDA o : o.operationId = id)
                   IN [i \in 1..Len(w) |-> OpLabel(w[i])]
      lastOp(id) == named[CHOOSE i \in 1..Len(named) :
                       /\ named[i].operationId = id
                       /\ \A j \in (i + 1)..Len(named) :
                            named[j].operationId # id]
      dup == SelectSeq(ids, LAMBDA id : Len(where(id)) > 1)
  IN [opIds |-> ids,
      duplicates |-> [i \in 1..Len(dup) |->
                        [id |-> dup[i], where |-> where(dup[i])]],
      missing |-> [i \in 1..Len(unnamed) |-> OpLabel(unnamed[i])],
      rootKeysByOpId |->
        [id \in Range(ids) |->
           IF HasFirst2xxJsonSchema(lastOp(id))
             THEN extractRootKeysFromSchema(
                    doc, pickFirst2xxJsonSchema(lastOp(id)), 0)
             ELSE Unresolved("no 2xx application/json schema")]]

\* openapiCheck.ts 276-314: the references of one state file, queries first.
RefsOfFile(f, path) ==
  LET refsOf(kind, items) ==
        LET with == SelectSeq(items, LAMBDA q : q.operationId # NoStr)
        IN [i \in 1..Len(with) |->
              [screenId |-> f.id, kind |-> kind, name |-> with[i].name,
               operationId |-> with[i].operationId,
               selectRoot |-> with[i].selectRoot, file |-> path]]
  IN refsOf("query", f.queries) \o refsOf("mutation", f.mutations)

\* openapiCheck.ts 232-318
collectOperationIdRefsFromL4(stateFiles) ==
  [refs |-> Flatten([i \in 1..Len(stateFiles) |->
              IF stateFiles[i].violations > 0 THEN <<>>
              ELSE RefsOfFile(stateFiles[i], i)]),
   l4Files |-> [i \in 1..Len(stateFiles) |-> i],
   errors |-> Flatten([i \in 1..Len(stateFiles) |->
              IF stateFiles[i].violations > 0
                THEN <<Diag("L4_INVALID", "error", "L4 invalid",
                            [file |-> i])>>
                ELSE <<>>])]

\* A check that reports an unknown operation id as a mere warning.
RefDiagnosticsUnknownAsWarning(r, reg, opts) ==
  IF r.operationId \notin Range(reg.opIds)
    THEN <<Diag("L4_UNKNOWN_OPERATION_ID", "warning", "unknown operationId",
                [operationId |-> r.operationId, kind |-> r.kind,
                 name |-> r.name, screenId |-> r.screenId, file |-> r.file])>>
  ELSE <<>>

\* openapiCheck.ts 394-454: the diagnostics of one reference.
RefDiagnostics(r, reg, opts) ==
  IF r.operationId \notin Range(reg.opIds)
    THEN <<Diag("L4_UNKNOWN_OPERATION_ID", "error", "unknown operationId",
                [operationId |-> r.operationId, kind |-> r.kind,
                 name |-> r.name, screenId |-> r.screenId, file |-> r.file])>>
  ELSE IF opts.checkSelectRoot /\ r.selectRoot # NoStr
    THEN LET info == reg.rootKeysByOpId[r.operationId]
         IN IF info.kind = "unresolved"
              THEN <<Diag("OPENAPI_RESPONSE_SCHEMA_UNRESOLVED", "warning",
                          "response schema unresolved",
                          [operationId |-> r.operationId,
                           reason |-> info.reason, screenId |-> r.screenId,
                           kind |-> r.kind, name |-> r.name])>>
            ELSE IF r.selectRoot \notin info.keys
              THEN <<Diag("L4_INVALID_SELECT_ROOT", "warning",
                          "selectRoot not in response root",
                          [operationId |-> r.operationId,
                           selectRoot |-> r.selectRoot,
                           availableRoots |-> info.keys,
                           screenId |-> r.screenId, kind |-> r.kind,
                           name |-> r.name])>>
            ELSE <<>>
  ELSE <<>>

\* openapiCheck.ts 456-468
UnusedDiagnostics(refs, reg, opts) ==
  LET used == {refs[i].operationId : i \in 1..Len(refs)}
      unused == SelectSeq(reg.opIds, LAMBDA id : id \notin used)
  IN IF opts.warnUnusedOperationId /\ Len(unused) > 0
       THEN <<Diag("L4_UNUSED_OPERATION_ID", "warning", "operationId unused",
                   [operationIds |-> unused])>>
       ELSE <<>>

\* openapiCheck.ts 324-471
openapiCheck(opts) ==
  IF ~input.openapi.exists
    THEN <<Diag("OPENAPI_NOT_FOUND", "error", "OpenAPI not found", NoMeta)>>
  ELSE IF ~input.openapi.parses
    THEN <<Diag("OPENAPI_INVALID", "error", "OpenAPI invalid", NoMeta)>>
  ELSE
    LET reg == collectOperationIdsFromOpenApi(input.openapi)
        l4 == collectOperationIdRefsFromL4(input.stateFiles)
        quality ==
          (IF Len(reg.missing) > 0
             THEN <<Diag("OPENAPI_MISSING_OPERATION_ID", "error",
                         "operation without operationId",
                         [operations |-> reg.missing])>>
             ELSE <<>>)
          \o (IF Len(reg.duplicates) > 0
                THEN <<Diag("OPENAPI_DUPLICATE_OPERATION_ID", "error",
                            "duplicate operationId",
                            [duplicates |-> reg.duplicates])>>
                ELSE <<>>)
    IN IF Len(l4.l4Files) = 0
         THEN quality \o l4.errors
              \o <<Diag("L4_NO_FILES", "warning", "no L4.state files", NoMeta)>>
         ELSE quality \o l4.errors
              \o Flatten([i \in 1..Len(l4.refs) |->
                            RefDiagnostics(l4.refs[i], reg, opts)])
              \o UnusedDiagnostics(l4.refs, reg, opts)

\* index.ts 169-205: the options validate hands to openapiCheck; it passes
\* no warnUnusedOperationId, which openapiCheck then reads as undefined.
ValidateOpenapiOpts ==
  [checkSelectRoot |-> input.config.openapi.checkSelectRoot,
   warnUnusedOperationId |-> FALSE]

\* The schema directory validate is given, and what it holds for
\* compileSchemaFromDir: the L4 schema, when there is one, with its $id.
SchemaDir == <<".", "schema">>

L4SchemaFile == "L4.state.schema.json"

L4SchemaId == "urn:mobilespec:L4.state"

PipelineSchemaFiles ==
  IF "L4" \in input.schemas
    THEN (resolve(SchemaDir \o <<L4SchemaFile>>) :> L4SchemaId)
    ELSE <<>>

\* The contract check as validate runs it: what it throws (readYamlUnknown
\* on a contract that is no YAML, openapiCheck.ts 339; compileSchemaFromDir,
\* openapiCheck.ts 248), what it does to the compile cache, and the
\* diagnostics it returns otherwise.
OpenapiRun ==
  LET quiet(ds) == [thrown |-> FALSE, ajv |-> ajv, diagnostics |-> ds]
  IN IF ~input.config.openapi.set THEN quiet(<<>>)
     ELSE IF ~input.openapi.exists
       THEN quiet(<<Diag("OPENAPI_NOT_FOUND", "error", "OpenAPI not found",
                         NoMeta)>>)
     ELSE IF ~input.openapi.loads
       THEN [thrown |-> TRUE, ajv |-> ajv, diagnostics |-> <<>>]
     ELSE IF ~input.openapi.parses THEN quiet(openapiCheck(ValidateOpenapiOpts))
     ELSE LET r == compileSchemaFromDir(ajv, PipelineSchemaFiles, SchemaDir,
                                        L4SchemaFile)
          IN IF r.ok
               THEN [thrown |-> FALSE, ajv |-> r.ajv,
                     diagnostics |-> openapiCheck(ValidateOpenapiOpts)]
               ELSE [thrown |-> TRUE, ajv |-> r.ajv, diagnostics |-> <<>>]

\* index.ts 169-205; nothing catches what openapiCheck throws.
OpenapiStage ==
  /\ pc = "openapi"
  /\ parts' = [parts EXCEPT !.openapi = OpenapiRun.diagnostics]
  /\ ajv' = OpenapiRun.ajv
  /\ pc' = IF OpenapiRun.thrown THEN "rejected" ELSE "merge"
  /\ UNCHANGED <<input, dequeued, calls, rootKeys, run, previous, fi, ti, screens, transitions, l2Errors, reachable,
                 queue, tdiags, uiActions, stateScreens, diagnostics, exitCode,
                 written>>

-----------------------------------------------------------------------------
(* Diagnostic aggregation (index.ts 207-235) and the CLI (bin/cli.ts)      *)

\* index.ts 210-233
MergedDiagnostics ==
  parts.l2Schema \o parts.l2Fatal \o parts.l2Errors \o parts.l2Infos
  \o parts.l2Unused
  \o parts.l3Schema \o parts.l3Screen \o parts.cross
  \o parts.l4Schema \o parts.l4Errors \o parts.l4EventInfos
  \o parts.i18n
  \o parts.openapi

Merge ==
  /\ pc = "merge"
  /\ diagnostics' = MergedDiagnostics
  /\ pc' = "report"
  /\ UNCHANGED <<input, dequeued, calls, rootKeys, ajv, run, previous, fi, ti, screens, transitions, l2Errors, reachable,
                 queue, tdiags, parts, uiActions, stateScreens, exitCode,
                 written>>

\* types/diagnostic.ts: the derived views
errorsOf(ds) == SelectSeq(ds, LAMBDA d : d.level = "error")

warningsOf(ds) == SelectSeq(ds, LAMBDA d : d.level = "warning")

infosOf(ds) == SelectSeq(ds, LAMBDA d : d.level = "info")

\* cli.ts 90-110
reportAndCode(ds, failOnWarnings) ==
  IF Len(errorsOf(ds)) > 0 THEN 1
  ELSE IF Len(warningsOf(ds)) > 0 /\ failOnWarnings THEN 1
  ELSE 0

\* cli.ts 125-153: the validate and check commands, after validate returned;
\* cli.ts 185-188: main().catch exits with 1 when validate rejected.
Report ==
  /\ pc \in {"report", "rejected"}
  /\ LET code == IF pc = "rejected" THEN 1
                 ELSE reportAndCode(diagnostics, input.args.failOnWarnings)
     IN /\ exitCode' = code
        /\ written' = IF input.args.cmd = "check" /\ code = 0
                        THEN {"mermaid", "i18n"} ELSE {}
  /\ pc' = IF pc = "rejected" THEN "crashed" ELSE "done"
  /\ UNCHANGED <<input, dequeued, calls, rootKeys, ajv, run, previous, fi, ti, screens, transitions, l2Errors, reachable,
                 queue, tdiags, parts, uiActions, stateScreens, diagnostics>>

-----------------------------------------------------------------------------
(* The pipeline *)

NoParts ==
  [l2Schema |-> <<>>, l2Fatal |-> <<>>, l2Errors |-> <<>>, l2Infos |-> <<>>,
   l2Unused |-> <<>>, l3Schema |-> <<>>, l3Screen |-> <<>>, cross |-> <<>>,
   l4Schema |-> <<>>, l4Errors |-> <<>>, l4EventInfos |-> <<>>,
   i18n |-> <<>>, openapi |-> <<>>]

NoOutcome == [rejected |-> FALSE, diagnostics |-> <<>>]

\* How many validate calls one process makes.
MaxRuns == 2

\* A caller that is not the CLI (a test, a library user) calls validate
\* again in the same process on the unchanged document set: every local of
\* validate starts afresh, the module state of lib/ajv.ts stays.
Rerun ==
  /\ pc \in {"report", "rejected"}
  /\ run < MaxRuns
  /\ previous' = [rejected |-> (pc = "rejected"), diagnostics |-> diagnostics]
  /\ run' = run + 1
  /\ pc' = "start"
  /\ fi' = 1
  /\ ti' = 1
  /\ screens' = <<>>
  /\ transitions' = <<>>
  /\ l2Errors' = <<>>
  /\ reachable' = {}
  /\ queue' = <<>>
  /\ tdiags' = <<>>
  /\ parts' = NoParts
  /\ uiActions' = <<>>
  /\ stateScreens' = <<>>
  /\ diagnostics' = <<>>
  /\ dequeued' = <<>>
  /\ UNCHANGED <<input, calls, rootKeys, ajv, exitCode, written>>

Next ==
  \/ Start
  \/ CollectScreen
  \/ CollectScreensDone
  \/ CollectTransition
  \/ NextFlowFile
  \/ ValidateEntries
  \/ TraverseStep
  \/ ValidateFinish
  \/ L3Stage
  \/ L4Stage
  \/ I18nStage
  \/ OpenapiStage
  \/ Merge
  \/ Report
  \/ Rerun

\* The state of a run before validate is called on one of the inputs.
InitOn(Inputs) ==
  /\ input \in Inputs
  /\ pc = "start"
  /\ fi = 1
  /\ ti = 1
  /\ screens = <<>>
  /\ transitions = <<>>
  /\ l2Errors = <<>>
  /\ reachable = {}
  /\ queue = <<>>
  /\ tdiags = <<>>
  /\ parts = NoParts
  /\ uiActions = <<>>
  /\ stateScreens = <<>>
  /\ diagnostics = <<>>
  /\ exitCode = -1
  /\ written = {}
  /\ ajv = FreshAjv
  /\ run = 1
  /\ previous = NoOutcome
  /\ dequeued = <<>>
  /\ calls = <<>>
  /\ rootKeys = NoRootKeys

-----------------------------------------------------------------------------
(* Bounded document sets *)

MaxFlowFiles == 2
MaxTransitions == 1

A == Str("a")
B == Str("b")
X == Str("x")
Go == Str("go")
Back == Str("back")

FlowDoc(id, context, entry, exit, trans) ==
  [id |-> id, context |-> context, entry |-> entry, exit |-> exit,
   transitions |-> trans, violations |-> 0, malformed |-> FALSE]

Trans(id, target, targetContext) ==
  [id |-> id, target |-> target, targetContext |-> targetContext]

AllSchemas == {"L2", "L3", "L4"}

NoI18n == [locales |-> <<>>]

NoOpenapiConfig ==
  [openapi |-> [set |-> FALSE, checkSelectRoot |-> FALSE,
                warnUnusedOperationId |-> TRUE]]

NoOpenapi ==
  [exists |-> FALSE, loads |-> FALSE, parses |-> FALSE, ops |-> <<>>]

DefaultArgs == [cmd |-> "validate", failOnWarnings |-> TRUE]

\* Navigation documents over two ids and an optional context.
FlowDocs ==
  {FlowDoc(id, c, e, FALSE, t) :
     id \in {A, B}, c \in {NoStr, X}, e \in BOOLEAN,
     t \in SeqUpTo({Trans(Go, tg, tc) : tg \in {A, B}, tc \in {NoStr, X}}
                   \cup {Trans(Back, A, NoStr)},
                   MaxTransitions)}

FlowInputs ==
  [flowFiles : SeqUpTo(FlowDocs, MaxFlowFiles), uiFiles : {<<>>},
   stateFiles : {<<>>}, i18n : {NoI18n}, config : {NoOpenapiConfig},
   openapi : {NoOpenapi}, schemas : {AllSchemas}, args : {DefaultArgs}]

Init == InitOn(FlowInputs)

Spec == Init /\ [][Next]_vars

\* validate runs to completion: no step of it is postponed forever.
FairSpec == Spec /\ WF_vars(Next)

\* UI documents over a fixed pair of screens a (entry) and b.
MaxUiFiles == 2
MaxChildren == 1

C == Str("c")
Btn == Str("btn")
Typo == Str("typo")

Node(id, action, named, children, layoutChildren) ==
  [id |-> id, action |-> action, named |-> named, children |-> children,
   layoutChildren |-> layoutChildren]

Leaf(id, action) == Node(id, action, id # NoStr, <<>>, <<>>)

Leaves == {Leaf(id, act) : id \in {NoStr, Btn}, act \in {NoStr, Go, Back, Typo}}

Layouts ==
  {Node(NoStr, NoStr, FALSE, ch, <<>>) : ch \in SeqUpTo(Leaves, MaxChildren)}
  \cup {Node(NoStr, NoStr, FALSE,
              <<Node(NoStr, NoStr, FALSE, <<>>, <<Leaf(Btn, act)>>)>>, <<>>) :
           act \in {Go, Typo}}

UiDoc(id, context, layout) ==
  [id |-> id, context |-> context, layout |-> layout, violations |-> 0]

UiDocs == {UiDoc(id, NoStr, l) : id \in {A, B, C}, l \in Layouts}

PairFlows ==
  {<<FlowDoc(A, NoStr, TRUE, FALSE, ta), FlowDoc(B, NoStr, FALSE, ex, tb)>> :
     ta \in SeqUpTo({Trans(Go, B, NoStr), Trans(Back, B, NoStr)}, 1),
     tb \in SeqUpTo({Trans(Go, A, NoStr), Trans(Back, A, NoStr)}, 1),
     ex \in BOOLEAN}

UiInputs ==
  [flowFiles : PairFlows, uiFiles : SeqUpTo(UiDocs, MaxUiFiles),
   stateFiles : {<<>>}, i18n : {NoI18n}, config : {NoOpenapiConfig},
   openapi : {NoOpenapi}, schemas : {AllSchemas},
   args : {DefaultArgs, [cmd |-> "check", failOnWarnings |-> TRUE]}]

SpecUI == InitOn(UiInputs) /\ [][Next]_vars

\* State documents over the fixed screens a (entry, go -> b) and b (exit).
MaxStateFiles == 2
MaxEvents == 1
MaxQueries == 2

Q1 == Str("q1")
Q2 == Str("q2")
M1 == Str("m1")
Load == Str("load")

DataRef(name, operationId, selectRoot) ==
  [name |-> name, operationId |-> operationId, selectRoot |-> selectRoot]

Event(key, type, ref) == [key |-> key, type |-> type, ref |-> ref]

StateDoc(id, context, queries, mutations, events, violations) ==
  [id |-> id, context |-> context, queries |-> queries,
   mutations |-> mutations, events |-> events, violations |-> violations]

BaseFlow ==
  <<FlowDoc(A, NoStr, TRUE, FALSE, <<Trans(Go, B, NoStr)>>),
    FlowDoc(B, NoStr, FALSE, TRUE, <<>>)>>

\* The declared names are distinct keys of data.queries.
QueryDecls ==
  {[i \in 1..n |-> DataRef(<<Q1, Q2>>[i], NoStr, NoStr)] : n \in 0..MaxQueries}

Events ==
  {Event(k, "navigate", NoStr) : k \in {Go, Load}}
  \cup {Event(k, "callQuery", q) : k \in {Go, Load}, q \in {Q1, Q2}}
  \cup {Event(k, "callMutation", M1) : k \in {Go, Load}}

StateDocs ==
  {StateDoc(id, NoStr, qs, ms, es, 0) :
     id \in {A, B}, qs \in QueryDecls,
     ms \in {<<>>, <<DataRef(M1, NoStr, NoStr)>>},
     es \in SeqUpTo(Events, MaxEvents)}

StateInputs ==
  [flowFiles : {BaseFlow}, uiFiles : {<<>>},
   stateFiles : SeqUpTo(StateDocs, MaxStateFiles), i18n : {NoI18n},
   config : {NoOpenapiConfig}, openapi : {NoOpenapi}, schemas : {AllSchemas},
   args : {DefaultArgs}]

SpecState == InitOn(StateInputs) /\ [][Next]_vars

\* Contracts and state-layer data references over the fixed screens.
MaxOps == 2
MaxContractStateFiles == 1

Op1 == Str("op1")
Op2 == Str("op2")
Op3 == Str("op3")
Items == Str("items")
Other == Str("other")

Schema(ref, hasProperties, properties, hasAllOf, allOf, oneOf, anyOf) ==
  [ref |-> ref, hasProperties |-> hasProperties, properties |-> properties,
   hasAllOf |-> hasAllOf, allOf |-> allOf, oneOf |-> oneOf, anyOf |-> anyOf]

PropsSchema(keys) == Schema("", TRUE, keys, FALSE, <<>>, FALSE, FALSE)

OneOfSchema == Schema("", FALSE, {}, FALSE, <<>>, TRUE, FALSE)

Response(code, jsonSchema, schema) ==
  [code |-> code, jsonSchema |-> jsonSchema, schema |-> schema]

Operation(path, method, operationId, responses) ==
  [path |-> path, method |-> method, operationId |-> operationId,
   responses |-> responses]

ResponseSets ==
  {<<>>, <<Response(200, TRUE, PropsSchema({Items}))>>,
   <<Response(200, TRUE, OneOfSchema)>>}

Operations ==
  {Operation("/t", m, id, rs) :
     m \in {"get", "post"}, id \in {NoStr, Op1, Op2}, rs \in ResponseSets}
  \cup {Operation("/t", "parameters", id, <<>>) : id \in {NoStr, Op1}}

\* The keys of a path item are distinct.
OperationLists ==
  {ops \in SeqUpTo(Operations, MaxOps) :
     \A i, j \in 1..Len(ops) : i # j => ops[i].method # ops[j].method}

Contracts ==
  {[exists |-> TRUE, loads |-> TRUE, parses |-> TRUE, ops |-> ops,
    components |-> <<>>] : ops \in OperationLists}
  \cup {[exists |-> e, loads |-> e, parses |-> FALSE, ops |-> <<>>,
         components |-> <<>>] : e \in BOOLEAN}

ContractStateDocs ==
  {StateDoc(A, NoStr, qs, ms, <<>>, v) :
     qs \in {<<>>} \cup {<<DataRef(Q1, op, sr)>> :
                            op \in {NoStr, Op1, Op3},
                            sr \in {NoStr, Items, Other}},
     ms \in {<<>>, <<DataRef(M1, Op3, NoStr)>>},
     v \in {0, 1}}

ContractConfigs ==
  {[openapi |-> [set |-> TRUE, checkSelectRoot |-> c,
                 warnUnusedOperationId |-> TRUE]] : c \in BOOLEAN}

ContractInputs ==
  [flowFiles : {BaseFlow}, uiFiles : {<<>>},
   stateFiles : SeqUpTo(ContractStateDocs, MaxContractStateFiles),
   i18n : {NoI18n}, config : ContractConfigs, openapi : Contracts,
   schemas : {AllSchemas},
   args : {[cmd |-> "validate", failOnWarnings |-> f] : f \in BOOLEAN}]

SpecContract == InitOn(ContractInputs) /\ [][Next]_vars

\* Document sets in which several stages have something to report at once,
\* and in which a stage can fail internally.
MalformedFlowDoc ==
  [FlowDoc(NoStr, NoStr, FALSE, FALSE, <<>>) EXCEPT
     !.malformed = TRUE, !.violations = 1]

StageFlows ==
  {BaseFlow,
   <<FlowDoc(A, NoStr, FALSE, FALSE, <<Trans(Go, C, NoStr)>>)>>,
   <<FlowDoc(A, NoStr, TRUE, FALSE, <<>>), FlowDoc(A, NoStr, FALSE, TRUE, <<>>)>>,
   <<FlowDoc(A, NoStr, TRUE, TRUE, <<>>), MalformedFlowDoc>>}

StageUis ==
  {<<>>,
   <<UiDoc(A, NoStr, Node(NoStr, NoStr, FALSE, <<Leaf(Btn, Go)>>, <<>>))>>,
   <<UiDoc(A, NoStr, Node(NoStr, NoStr, FALSE, <<Leaf(Btn, Typo)>>, <<>>))>>,
   <<UiDoc(C, NoStr, Node(NoStr, NoStr, FALSE, <<>>, <<>>))>>}

StageStates ==
  {<<>>,
   <<StateDoc(A, NoStr, <<>>, <<>>, <<Event(Go, "navigate", NoStr)>>, 0)>>,
   <<StateDoc(C, NoStr, <<>>, <<>>, <<>>, 0)>>,
   <<StateDoc(A, NoStr, <<DataRef(Q1, Op3, NoStr)>>, <<>>,
              <<Event(Go, "callQuery", Q2)>>, 0)>>}

Dictionary(parses, present, empty) ==
  [parses |-> parses, present |-> present, empty |-> empty]

\* The button of the minimal consistent specification, and dictionaries
\* (ja, en) that hold every key of it, translated.
OkLayout == Node(NoStr, NoStr, FALSE, <<Leaf(Btn, Go)>>, <<>>)

OkKeys ==
  {screenPrefix(A, NoStr) \o <<".title">>,
   screenPrefix(B, NoStr) \o <<".title">>}
  \cup Range(labelKeys(OkLayout, screenPrefix(A, NoStr)))

OkI18n ==
  [locales |-> <<"ja", "en">>,
   dict |-> [l \in {"ja", "en"} |-> Dictionary(TRUE, OkKeys, {})]]

StageI18ns ==
  {NoI18n, OkI18n} \cup
  {[locales |-> <<"ja">>, dict |-> [l \in {"ja"} |-> d]] :
     d \in {Dictionary(TRUE, {}, {}), Dictionary(FALSE, {}, {})}}

Configured ==
  [openapi |-> [set |-> TRUE, checkSelectRoot |-> FALSE,
                warnUnusedOperationId |-> TRUE]]

Contract(exists, loads, parses, ops) ==
  [exists |-> exists, loads |-> loads, parses |-> parses, ops |-> ops,
   components |-> <<>>]

\* config and contract go together: no contract configured, or one that is
\* missing, no YAML, without operations, or with an operation without id.
StageContracts ==
  {<<NoOpenapiConfig, NoOpenapi>>,
   <<Configured, Contract(FALSE, FALSE, FALSE, <<>>)>>,
   <<Configured, Contract(TRUE, FALSE, FALSE, <<>>)>>,
   <<Configured, Contract(TRUE, TRUE, TRUE, <<>>)>>,
   <<Configured, Contract(TRUE, TRUE, TRUE,
                          <<Operation("/t", "get", NoStr, <<>>)>>)>>}

StageInputs ==
  {[flowFiles |-> f, uiFiles |-> u, stateFiles |-> st, i18n |-> i,
    config |-> c[1], openapi |-> c[2], schemas |-> sc, args |-> DefaultArgs] :
     f \in StageFlows, u \in StageUis, st \in StageStates, i \in StageI18ns,
     c \in StageContracts, sc \in {AllSchemas, {"L2", "L3"}}}

SpecStages == InitOn(StageInputs) /\ [][Next]_vars

\* A process that only compiles schemas: up to MaxCompileCalls calls of
\* compileSchema, on relative and absolute spellings of up to three schema
\* files, each of which may be missing, without $id, or with one of two $ids.
MaxCompileCalls == 3

SchemaNames == {"p.json", "q.json", "r.json"}

SchemaIds == {NoId, "urn:one", "urn:two"}

\* The files that exist, by absolute path, with the $id of each.
SchemaFileSystems ==
  UNION {[{Cwd \o <<n>> : n \in present} -> SchemaIds] :
           present \in SUBSET SchemaNames}

SchemaPathSpellings ==
  {<<n>> : n \in SchemaNames} \cup {<<".", n>> : n \in SchemaNames}
  \cup {Cwd \o <<n>> : n \in SchemaNames}

\* ajv.ts 41: one call of compileSchema by some module of the process.
CompileSchemaCall ==
  /\ pc = "compiling"
  /\ Len(ajv.calls) < MaxCompileCalls
  /\ \E p \in SchemaPathSpellings :
       ajv' = compileSchema(ajv, input.schemaFiles, p).ajv
  /\ UNCHANGED <<input, dequeued, calls, rootKeys, pc, fi, ti, screens, transitions, l2Errors,
                 reachable, queue, tdiags, parts, uiActions, stateScreens,
                 diagnostics, exitCode, written, run, previous>>

InitCompile ==
  /\ input \in [schemaFiles : SchemaFileSystems]
  /\ pc = "compiling"
  /\ fi = 1
  /\ ti = 1
  /\ screens = <<>>
  /\ transitions = <<>>
  /\ l2Errors = <<>>
  /\ reachable = {}
  /\ queue = <<>>
  /\ tdiags = <<>>
  /\ parts = NoParts
  /\ uiActions = <<>>
  /\ stateScreens = <<>>
  /\ diagnostics = <<>>
  /\ exitCode = -1
  /\ written = {}
  /\ ajv = FreshAjv
  /\ run = 1
  /\ previous = NoOutcome
  /\ dequeued = <<>>
  /\ calls = <<>>
  /\ rootKeys = NoRootKeys

NextCompile == CompileSchemaCall

SpecCompile == InitCompile /\ [][NextCompile]_vars

\* Navigation documents with up to two transitions each, over an id `a`, an
\* id `a__b` and an optional context `b`: the builder on repeated
\* transition ids and on ids that spell the key of another screen.
MaxBuilderTransitions == 2

A__B == <<"a", "__", "b">>

BuilderTransitions ==
  {Trans(Go, A, NoStr), Trans(Go, A, B), Trans(Back, A__B, NoStr)}

BuilderDocs ==
  {FlowDoc(id, c, TRUE, FALSE, t) :
     id \in {A, A__B}, c \in {NoStr, B},
     t \in SeqUpTo(BuilderTransitions, MaxBuilderTransitions)}

BuilderInputs ==
  [flowFiles : SeqUpTo(BuilderDocs, MaxFlowFiles), uiFiles : {<<>>},
   stateFiles : {<<>>}, i18n : {NoI18n}, config : {NoOpenapiConfig},
   openapi : {NoOpenapi}, schemas : {AllSchemas}, args : {DefaultArgs}]

SpecBuilder == InitOn(BuilderInputs) /\ [][Next]_vars

-----------------------------------------------------------------------------
(* Choice screens.  validate passes the guard ids to validateTransitions   *)
(* (validate/index.ts with loadL2Guards); the check of the outgoing        *)
(* transitions of a choice-kind screen is stated by the specification of   *)
(* the Transition entity and modelled from it.                             *)

MaxChoiceTransitions == 3

G1 == Str("g1")

\* An outgoing transition of a screen: its guard reference (if any) and its
\* else flag.
Outgoing(guard, else) == [guard |-> guard, else |-> else]

choiceUnguarded(index) ==
  Diag("L2_INVALID", "error", "choice transition without guard or else",
       [index |-> index])

choiceMultipleElse(count) ==
  Diag("L2_INVALID", "error", "choice with more than one else",
       [count |-> count])

\* A check that accepts any number of else transitions.
choiceDiagnosticsAnyElse(kind, outgoing) ==
  IF kind # "choice" THEN <<>>
  ELSE LET bare == SelectSeq([i \in 1..Len(outgoing) |-> i],
                             LAMBDA i : outgoing[i].guard = NoStr
                                        /\ ~outgoing[i].else)
       IN [k \in 1..Len(bare) |-> choiceUnguarded(bare[k])]

\* The diagnostics of one screen of the given kind with these outgoing
\* transitions.
choiceDiagnostics(kind, outgoing) ==
  IF kind # "choice" THEN <<>>
  ELSE LET bare == SelectSeq([i \in 1..Len(outgoing) |-> i],
                             LAMBDA i : outgoing[i].guard = NoStr
                                        /\ ~outgoing[i].else)
           elses == Len(SelectSeq(outgoing, LAMBDA t : t.else))
       IN [k \in 1..Len(bare) |-> choiceUnguarded(bare[k])]
          \o (IF elses > 1 THEN <<choiceMultipleElse(elses)>> ELSE <<>>)

ChoiceInputs ==
  [kind : {"screen", "choice"},
   outgoing : SeqUpTo({Outgoing(g, e) : g \in {NoStr, G1}, e \in BOOLEAN},
                      MaxChoiceTransitions)]

\* validateTransitions on the outgoing transitions of one screen.
ChoiceCheck ==
  /\ pc = "choice"
  /\ tdiags' = choiceDiagnostics(input.kind, input.outgoing)
  /\ pc' = "choiceChecked"
  /\ UNCHANGED <<input, dequeued, calls, rootKeys, fi, ti, screens, transitions, l2Errors, reachable,
                 queue, parts, uiActions, stateScreens, diagnostics,
                 exitCode, written, ajv, run, previous>>

InitChoice ==
  /\ input \in ChoiceInputs
  /\ pc = "choice"
  /\ fi = 1
  /\ ti = 1
  /\ screens = <<>>
  /\ transitions = <<>>
  /\ l2Errors = <<>>
  /\ reachable = {}
  /\ queue = <<>>
  /\ tdiags = <<>>
  /\ parts = NoParts
  /\ uiActions = <<>>
  /\ stateScreens = <<>>
  /\ diagnostics = <<>>
  /\ exitCode = -1
  /\ written = {}
  /\ ajv = FreshAjv
  /\ run = 1
  /\ previous = NoOutcome
  /\ dequeued = <<>>
  /\ calls = <<>>
  /\ rootKeys = NoRootKeys

NextChoice == ChoiceCheck

SpecChoice == InitChoice /\ [][NextChoice]_vars

-----------------------------------------------------------------------------
(* Response schemas with $ref, allOf and cycles, for the resolver alone    *)

MaxAllOf == 2

R1 == "#/components/schemas/R1"
R2 == "#/components/schemas/R2"
Missing == "#/components/schemas/Missing"

RefSchema(ref) == Schema(ref, FALSE, {}, FALSE, <<>>, FALSE, FALSE)

AnyOfSchema == Schema("", FALSE, {}, FALSE, <<>>, FALSE, TRUE)

EmptySchema == Schema("", FALSE, {}, FALSE, <<>>, FALSE, FALSE)

AllOfSchema(members) == Schema("", FALSE, {}, TRUE, members, FALSE, FALSE)

\* A schema with its own properties next to an allOf list.
PropsAllOfSchema(keys, members) ==
  Schema("", TRUE, keys, TRUE, members, FALSE, FALSE)

AllOfMembers ==
  {PropsSchema({Items}), PropsSchema({Other}), OneOfSchema, RefSchema(R1),
   RefSchema(Missing)}

ShapeSchemas ==
  AllOfMembers \cup {AnyOfSchema, EmptySchema, RefSchema(R2)}
  \cup {AllOfSchema(ms) : ms \in SeqUpTo(AllOfMembers, MaxAllOf)}
  \cup {PropsAllOfSchema({Items}, ms) : ms \in SeqUpTo(AllOfMembers, MaxAllOf)}

\* components.schemas of the contract: two named schemas that may refer to
\* themselves, to each other, or to themselves from inside an allOf.
ComponentSchemas ==
  {PropsSchema({Items}), RefSchema(R1), RefSchema(R2),
   AllOfSchema(<<RefSchema(R1), PropsSchema({Other})>>)}

ShapeComponents ==
  [{R1, R2} -> ComponentSchemas]
  \cup {(R1 :> AllOfSchema(<<RefSchema(R1), RefSchema(R1)>>))
          @@ (R2 :> RefSchema(R1))}

RootKeysInputs == [components : ShapeComponents, schema : ShapeSchemas]

InitRootKeys ==
  /\ input \in RootKeysInputs
  /\ pc = "extract"
  /\ calls = <<Frame(input.schema, 0)>>
  /\ rootKeys = NoRootKeys
  /\ fi = 1
  /\ ti = 1
  /\ screens = <<>>
  /\ transitions = <<>>
  /\ l2Errors = <<>>
  /\ reachable = {}
  /\ queue = <<>>
  /\ tdiags = <<>>
  /\ parts = NoParts
  /\ uiActions = <<>>
  /\ stateScreens = <<>>
  /\ diagnostics = <<>>
  /\ exitCode = -1
  /\ written = {}
  /\ ajv = FreshAjv
  /\ run = 1
  /\ previous = NoOutcome
  /\ dequeued = <<>>

NextRootKeys == ExtractCall \/ ExtractReturn

SpecRootKeys == InitRootKeys /\ [][NextRootKeys]_vars

\* The calls of the resolver are not interrupted.
FairSpecRootKeys == SpecRootKeys /\ WF_vars(NextRootKeys)

\* Contracts whose responses have every shape the resolver tells apart,
\* checked by validate against one state document that selects a root key
\* of operation op1.
ResponseSchemas ==
  {PropsSchema({Items}), OneOfSchema, AnyOfSchema, RefSchema(Missing),
   RefSchema(R1), AllOfSchema(<<PropsSchema({Other})>>),
   AllOfSchema(<<OneOfSchema>>),
   PropsAllOfSchema({Items}, <<PropsSchema({Other})>>)}

ShapeResponseSets ==
  {<<>>, <<Response(200, FALSE, EmptySchema)>>}
  \cup {<<Response(200, TRUE, sc)>> : sc \in ResponseSchemas}

ShapeOperations ==
  {Operation("/t", m, id, rs) :
     m \in {"get", "post"}, id \in {Op1, Op2}, rs \in ShapeResponseSets}

ShapeContracts ==
  {[exists |-> TRUE, loads |-> TRUE, parses |-> TRUE, ops |-> ops,
    components |-> cs] :
     ops \in {l \in SeqUpTo(ShapeOperations, MaxOps) :
                \A i, j \in 1..Len(l) : i # j => l[i].method # l[j].method},
     cs \in {(R1 :> PropsSchema({Items})), (R1 :> RefSchema(R1))}}

ShapeInputs ==
  [flowFiles : {BaseFlow}, uiFiles : {<<>>},
   stateFiles : {<<StateDoc(A, NoStr, <<DataRef(Q1, Op1, sr)>>, <<>>, <<>>, 0)>> :
                   sr \in {Items, Other}},
   i18n : {NoI18n}, config : ContractConfigs, openapi : ShapeContracts,
   schemas : {AllSchemas}, args : {DefaultArgs}]

SpecShapes == InitOn(ShapeInputs) /\ [][Next]_vars

-----------------------------------------------------------------------------
(* Properties of the navigation graph builder and of reachability          *)

Done == pc = "done"

ErrorCount(ds, message) ==
  Cardinality({i \in 1..Len(ds) :
                 ds[i].level = "error" /\ ds[i].message = message})

\* The builder is about to resolve a transition that names no target
\* context and whose target id has two or more registered variants.
AtAmbiguousTransition ==
  /\ pc = "collectTransitions"
  /\ fi <= Len(flowFiles)
  /\ ti <= Len(flowFiles[fi].transitions)
  /\ flowFiles[fi].transitions[ti].targetContext = NoStr
  /\ Cardinality({i \in 1..Len(screens) :
                    screens[i].id = flowFiles[fi].transitions[ti].target}) >= 2

\* C10: a transition without target context whose target id has two or
\* more context variants yields an ambiguous-target error and adds no edge
\* to the graph: the builder never picks a variant by default.
C10_AmbiguousTargetIsError ==
  [][AtAmbiguousTransition =>
       /\ transitions' = transitions
       /\ Len(l2Errors') = Len(l2Errors) + 1
       /\ LET e == l2Errors'[Len(l2Errors')]
              t == flowFiles[fi].transitions[ti]
          IN /\ e.level = "error"
             /\ e.message = "Ambiguous target"
             /\ e.meta.targetId = t.target
             /\ e.meta.transitionId = t.id]_vars

C10_Witness ==
  /\ pc = "collectTransitions"
  /\ \E i \in 1..Len(l2Errors) : l2Errors[i].message = "Ambiguous target"

\* The screens of the registry that some path of resolved transitions
\* reaches from an entry screen.
RECURSIVE ReachClosure(_)
ReachClosure(S) ==
  LET more == S \cup {transitions[i].toKey :
                        i \in {j \in 1..Len(transitions) :
                                 transitions[j].fromKey \in S}}
  IN IF more = S THEN S ELSE ReachClosure(more)

EntryKeySet == {screens[i].key : i \in {j \in 1..Len(screens) : screens[j].entry}}

UnreachableSet ==
  {screens[i].key : i \in 1..Len(screens)} \ ReachClosure(EntryKeySet)

IsSortedByLabel(keys) ==
  \A i \in 1..(Len(keys) - 1) :
     ~localeCompareLess(
        displayId(screensGet(keys[i + 1]).id, screensGet(keys[i + 1]).context),
        displayId(screensGet(keys[i]).id, screensGet(keys[i]).context))

\* C4: with no entry screen the result of validate holds exactly one error
\* of the "no entry" kind and the run fails; validation still completes,
\* with an empty reachable set.
C4_NoEntryIsOneError ==
  (Done /\ EntryKeySet = {}) =>
     /\ ErrorCount(diagnostics, "no entry screen") = 1
     /\ exitCode = 1
     /\ reachable = {}

\* C5: the unreachable screens are reported, as one error-level diagnostic
\* of the result of validate that lists exactly them in sorted order; when
\* every screen is reachable, reachability contributes no error.
C5_UnreachableIsError ==
  Done =>
    IF UnreachableSet # {}
      THEN \E i \in 1..Len(diagnostics) :
             /\ diagnostics[i].level = "error"
             /\ diagnostics[i].message = "unreachable screens"
             /\ Range(diagnostics[i].meta.keys) = UnreachableSet
             /\ Len(diagnostics[i].meta.keys) = Cardinality(UnreachableSet)
             /\ IsSortedByLabel(diagnostics[i].meta.keys)
      ELSE EntryKeySet # {} => errorsOf(parts.l2Infos) = <<>>

-----------------------------------------------------------------------------
(* Properties of the UI cross-check                                        *)

\* The ids of the transitions whose source is the screen of (id, context).
TransitionIdsOfScreen(screenId, context) ==
  {transitions[i].label :
     i \in {j \in 1..Len(transitions) :
              transitions[j].fromKey = screenKey(screenId, context)}}

Occurrences(s, x) == Cardinality({i \in 1..Len(s) : s[i] = x})

ActionErrors(a) ==
  Cardinality({i \in 1..Len(diagnostics) :
     /\ diagnostics[i].code = "L3_ACTION_NOT_IN_L2"
     /\ diagnostics[i].level = "error"
     /\ diagnostics[i].meta = [action |-> a.action, screenId |-> a.screenId,
                               context |-> a.context,
                               componentId |-> a.componentId]})

\* C2: a UI action whose id is no transition id of its own screen yields
\* exactly one L3_ACTION_NOT_IN_L2 error naming the action and component,
\* also when the id is a transition id of another screen.
C2_ActionMustBeOwnTransition ==
  Done =>
    \A k \in 1..Len(uiActions) :
       uiActions[k].action
           \notin TransitionIdsOfScreen(uiActions[k].screenId,
                                        uiActions[k].context)
         => ActionErrors(uiActions[k]) = Occurrences(uiActions, uiActions[k])

-----------------------------------------------------------------------------
(* Properties of the state-layer checks                                    *)

\* The state document that stands for its screen key (the last one loaded)
\* has a callQuery event naming a query its data.queries do not declare.
HasDanglingQuery(f) ==
  \E j \in 1..Len(f.events) :
     /\ f.events[j].type = "callQuery"
     /\ f.events[j].ref \notin {f.queries[k].name : k \in 1..Len(f.queries)}

SomeDanglingQuery ==
  \E i \in 1..Len(input.stateFiles) :
     /\ HasDanglingQuery(input.stateFiles[i])
     /\ \A j \in (i + 1)..Len(input.stateFiles) :
          screenKey(input.stateFiles[j].id, input.stateFiles[j].context)
            # screenKey(input.stateFiles[i].id, input.stateFiles[i].context)

CodeErrorCount(ds, code) ==
  Cardinality({i \in 1..Len(ds) : ds[i].level = "error" /\ ds[i].code = code})

\* C3: a callQuery event naming a query absent from the document's own
\* data.queries puts exactly one error-level L4_UNKNOWN_QUERY diagnostic in
\* the result of validate; with the name declared there is none.
C3_DanglingQueryIsError ==
  Done =>
     CodeErrorCount(diagnostics, "L4_UNKNOWN_QUERY")
       = IF SomeDanglingQuery THEN 1 ELSE 0

-----------------------------------------------------------------------------
(* Properties of the external-contract check and of the pass/fail decision *)

\* validate ran the contract check on a contract it could read.
ContractChecked ==
  /\ input.config.openapi.set
  /\ input.openapi.exists
  /\ input.openapi.parses

\* The operation ids the contract declares on HTTP-method keys.
DeclaredOperationIds ==
  {input.openapi.ops[i].operationId :
     i \in {j \in 1..Len(input.openapi.ops) :
              /\ input.openapi.ops[j].method \in HttpMethods
              /\ input.openapi.ops[j].operationId # NoStr}}

\* The structurally valid state documents, by position.
ValidStateFiles ==
  {i \in 1..Len(input.stateFiles) : input.stateFiles[i].violations = 0}

\* The query/mutation declarations of the structurally valid state
\* documents that name an operation: [file, kind, decl].
DataReferences ==
  {r \in UNION {{[file |-> i, kind |-> "query",
                   decl |-> input.stateFiles[i].queries[j]] :
                    j \in DOMAIN input.stateFiles[i].queries}
                 \cup {[file |-> i, kind |-> "mutation",
                        decl |-> input.stateFiles[i].mutations[j]] :
                         j \in DOMAIN input.stateFiles[i].mutations} :
                 i \in ValidStateFiles} :
     r.decl.operationId # NoStr}

\* The positions of the diagnostics that satisfy Test.
DiagnosticsWhere(Test(_)) ==
  {i \in 1..Len(diagnostics) : Test(diagnostics[i])}

IsUnknownOperationIdOf(d, r, level) ==
  /\ d.code = "L4_UNKNOWN_OPERATION_ID"
  /\ d.level = level
  /\ d.meta.operationId = r.decl.operationId
  /\ d.meta.kind = r.kind
  /\ d.meta.name = r.decl.name
  /\ d.meta.file = r.file

\* C9: when validate checks the state layer against a readable contract,
\* every query or mutation reference whose operationId the contract does not
\* declare yields exactly one error-level L4_UNKNOWN_OPERATION_ID diagnostic
\* citing that reference, and a reference to a declared id yields none.
C9_UnknownOperationIdIsError ==
  (Done /\ ContractChecked) =>
    \A r \in DataReferences :
      Cardinality(DiagnosticsWhere(
          LAMBDA d : IsUnknownOperationIdOf(d, r, "error")))
        = IF r.decl.operationId \in DeclaredOperationIds THEN 0 ELSE 1

C9_Witness ==
  /\ Done /\ ContractChecked
  /\ DeclaredOperationIds # {}
  /\ \E r \in DataReferences : r.decl.operationId \notin DeclaredOperationIds
  /\ \E r \in DataReferences : r.decl.operationId \in DeclaredOperationIds
  /\ \E i \in 1..Len(diagnostics) :
       diagnostics[i].code = "L4_UNKNOWN_OPERATION_ID"

\* C1: the command fails (exit code 1) exactly when the diagnostics hold at
\* least one error, and passes (exit code 0) otherwise.
C1_FailsIffError ==
  Done => (exitCode = 1 <=> Len(errorsOf(diagnostics)) > 0)

\* C6: every diagnostic validate returns, the contract check's included,
\* has level error or info.
C6_OnlyErrorAndInfo ==
  Done => \A i \in 1..Len(diagnostics) :
            diagnostics[i].level \in {"error", "info"}

\* The references to a declared operation that name a selectRoot, with the
\* root keys of the operation's response.
SelectRootReferences ==
  {r \in DataReferences :
     /\ r.decl.operationId \in DeclaredOperationIds
     /\ r.decl.selectRoot # NoStr}

RootKeysOf(id) ==
  collectOperationIdsFromOpenApi(input.openapi).rootKeysByOpId[id]

IsAboutSelectRootOf(d, r, code) ==
  /\ d.code = code
  /\ d.meta.operationId = r.decl.operationId
  /\ d.meta.kind = r.kind
  /\ d.meta.name = r.decl.name

\* C7: whatever the configuration flags, a selectRoot absent from the
\* resolved root keys of its operation's response is an error-level
\* L4_INVALID_SELECT_ROOT, and a selectRoot whose response schema cannot be
\* resolved is reported at level info and never as an error.
C7_SelectRootAlwaysChecked ==
  (Done /\ ContractChecked) =>
    \A r \in SelectRootReferences :
      LET info == RootKeysOf(r.decl.operationId)
      IN IF info.kind = "unresolved"
           THEN /\ \E i \in 1..Len(diagnostics) :
                     /\ IsAboutSelectRootOf(diagnostics[i], r,
                          "OPENAPI_RESPONSE_SCHEMA_UNRESOLVED")
                     /\ diagnostics[i].level = "info"
                /\ \A i \in 1..Len(diagnostics) :
                     IsAboutSelectRootOf(diagnostics[i], r,
                       "L4_INVALID_SELECT_ROOT")
                       => diagnostics[i].level # "error"
         ELSE r.decl.selectRoot \notin info.keys =>
                \E i \in 1..Len(diagnostics) :
                  /\ IsAboutSelectRootOf(diagnostics[i], r,
                       "L4_INVALID_SELECT_ROOT")
                  /\ diagnostics[i].level = "error"

\* The declared operation ids that no collected reference names.
UnreferencedOperationIds ==
  DeclaredOperationIds \ {r.decl.operationId : r \in DataReferences}

\* C8: when the contract declares operation ids that no state document
\* references, validate reports exactly one info-level
\* L4_UNUSED_OPERATION_ID diagnostic listing them and no error-level one.
C8_UnusedOperationIdsAreInfo ==
  (Done /\ ContractChecked /\ Len(input.stateFiles) > 0
     /\ UnreferencedOperationIds # {}) =>
    /\ Cardinality(DiagnosticsWhere(
          LAMBDA d : /\ d.code = "L4_UNUSED_OPERATION_ID"
                     /\ d.level = "info"
                     /\ Range(d.meta.operationIds)
                          = UnreferencedOperationIds)) = 1
    /\ DiagnosticsWhere(
          LAMBDA d : d.code = "L4_UNUSED_OPERATION_ID" /\ d.level = "error")
         = {}

-----------------------------------------------------------------------------
(* Properties of the pipeline as a whole *)

\* validate returned its merged list.
ValidateReturned == pc \in {"report", "done"}

\* Every diagnostic of ds is in the list validate returned.
Surfaced(ds) == \A i \in 1..Len(ds) : ds[i] \in Range(diagnostics)

HasError(ds) == \E i \in 1..Len(ds) : ds[i].level = "error"

\* What each stage reports for the input on its own.
SchemaStageDiagnostics ==
  validateSchema(input.flowFiles, "L2") \o validateSchema(input.uiFiles, "L3")
  \o validateSchema(input.stateFiles, "L4")

BuildStageDiagnostics == parts.l2Fatal \o l2Errors

ReachabilityStageDiagnostics == AsInfo(tdiags)

UiStageDiagnostics ==
  validateL3ScreensExistInL2(input.uiFiles)
  \o validateL3L2Cross(collectUIActions(input.uiFiles), transitions)

StateStageDiagnostics ==
  validateL4L2Cross(collectStateScreens(input.stateFiles))
  \o AsInfo(validateL4EventsCross(collectL4Details(input.stateFiles),
                                  transitions))

I18nStageDiagnostics == validateI18n(input.i18n, input.uiFiles)

ContractStageDiagnostics ==
  IF ~input.config.openapi.set THEN <<>>
  ELSE IF ~input.openapi.exists
    THEN <<Diag("OPENAPI_NOT_FOUND", "error", "OpenAPI not found", NoMeta)>>
  ELSE openapiCheck(ValidateOpenapiOpts)

\* The call of validate is over: it returned, or it rejected.
ValidateEnded == pc \in {"report", "done", "rejected", "crashed"}

\* C11: on every invocation every stage runs: when the call is over, the
\* diagnostics of each stage (schema, navigation build, reachability, UI
\* cross-check, state cross-check, i18n, external contract) are all in the
\* list the caller got, whatever the other stages reported or did.
C11_EveryStageReports ==
  ValidateEnded =>
    /\ Surfaced(SchemaStageDiagnostics)
    /\ Surfaced(BuildStageDiagnostics)
    /\ Surfaced(ReachabilityStageDiagnostics)
    /\ Surfaced(UiStageDiagnostics)
    /\ Surfaced(StateStageDiagnostics)
    /\ Surfaced(I18nStageDiagnostics)
    /\ Surfaced(ContractStageDiagnostics)

\* The same, for the calls that returned.
EveryStageReportsOnReturn ==
  ValidateReturned =>
    /\ Surfaced(SchemaStageDiagnostics)
    /\ Surfaced(BuildStageDiagnostics)
    /\ Surfaced(ReachabilityStageDiagnostics)
    /\ Surfaced(UiStageDiagnostics)
    /\ Surfaced(StateStageDiagnostics)
    /\ Surfaced(I18nStageDiagnostics)
    /\ Surfaced(ContractStageDiagnostics)

\* A navigation document on which the builder fails internally.
BuilderFails ==
  \E i \in 1..Len(input.flowFiles) : input.flowFiles[i].malformed

\* C12: validate never throws or rejects: a stage that fails internally (a
\* document of malformed shape, a locale dictionary that is no JSON, a
\* contract file that cannot be read) contributes one error-level
\* diagnostic and validate still returns.
C12_NeverRejects ==
  /\ pc \notin {"rejected", "crashed"}
  /\ (ValidateReturned /\ BuilderFails) =>
       Len(SelectSeq(diagnostics,
                     LAMBDA d : d = l2ParseFailed)) = 1

\* The part of it that safeRun gives: a failure of the navigation builder
\* is one error-level diagnostic, and the later stages still report.
BuilderFailureIsOneDiagnostic ==
  (ValidateReturned /\ BuilderFails) =>
    /\ Len(SelectSeq(diagnostics, LAMBDA d : d = l2ParseFailed)) = 1
    /\ l2ParseFailed.level = "error"
    /\ Surfaced(UiStageDiagnostics)
    /\ Surfaced(StateStageDiagnostics)

\* The diagnostics of each layer, in the order their stages produce them.
L2LayerDiagnostics ==
  validateSchema(input.flowFiles, "L2") \o BuildStageDiagnostics
  \o ReachabilityStageDiagnostics \o parts.l2Unused

L3LayerDiagnostics ==
  validateSchema(input.uiFiles, "L3") \o UiStageDiagnostics

L4LayerDiagnostics ==
  validateSchema(input.stateFiles, "L4") \o StateStageDiagnostics

\* C13: the list validate returns is the concatenation of the layers'
\* diagnostics in the order L2, L3, L4, i18n, external contract, and a
\* second validate call of the same process on the unchanged document set
\* ends as the first did, with the identical list.
C13_SameListInLayerOrder ==
  /\ ValidateReturned =>
       diagnostics = L2LayerDiagnostics \o L3LayerDiagnostics
                     \o L4LayerDiagnostics \o I18nStageDiagnostics
                     \o ContractStageDiagnostics
  /\ (ValidateEnded /\ run > 1) =>
       /\ previous.rejected = (pc \in {"rejected", "crashed"})
       /\ previous.diagnostics = diagnostics

\* A second run that returned diagnostics of several layers, the contract
\* check's among them, with the L4 schema taken from the compile cache.
C13_Witness ==
  /\ ValidateReturned /\ run > 1
  /\ L2LayerDiagnostics # <<>> /\ L3LayerDiagnostics # <<>>
  /\ L4LayerDiagnostics # <<>> /\ I18nStageDiagnostics # <<>>
  /\ ContractStageDiagnostics # <<>>
  /\ Len(ajv.calls) = 2 /\ Len(ajv.compiles) = 1

-----------------------------------------------------------------------------
(* Properties of the operation registry *)

\* The operations of the contract: the entries under HTTP-method keys.
HttpOperations ==
  {i \in 1..Len(input.openapi.ops) :
     input.openapi.ops[i].method \in HttpMethods}

\* The labels of the operations that have no operationId.
OperationsWithoutId ==
  {<<input.openapi.ops[i].method, input.openapi.ops[i].path>> :
     i \in {j \in HttpOperations : input.openapi.ops[j].operationId = NoStr}}

\* The operation ids declared by more than one operation.
IdsDeclaredTwice ==
  {input.openapi.ops[i].operationId :
     i \in {j \in HttpOperations :
              /\ input.openapi.ops[j].operationId # NoStr
              /\ \E k \in HttpOperations \ {j} :
                   input.openapi.ops[k].operationId
                     = input.openapi.ops[j].operationId}}

ErrorsWithCode(code) ==
  SelectSeq(diagnostics, LAMBDA d : d.code = code /\ d.level = "error")

\* C14: when validate checks a readable contract, the operations (path x
\* HTTP method) without operationId are exactly those listed in an
\* error-level OPENAPI_MISSING_OPERATION_ID diagnostic, the operation ids
\* declared by more than one operation are exactly those listed in an
\* error-level OPENAPI_DUPLICATE_OPERATION_ID diagnostic, and keys that are
\* no HTTP method count for neither and register no operation id.
C14_RegistryQualityErrors ==
  (Done /\ ContractChecked) =>
    LET missing == ErrorsWithCode("OPENAPI_MISSING_OPERATION_ID")
        duplicate == ErrorsWithCode("OPENAPI_DUPLICATE_OPERATION_ID")
    IN /\ Len(missing) = IF OperationsWithoutId = {} THEN 0 ELSE 1
       /\ \A i \in 1..Len(missing) :
            Range(missing[i].meta.operations) = OperationsWithoutId
       /\ Len(duplicate) = IF IdsDeclaredTwice = {} THEN 0 ELSE 1
       /\ \A i \in 1..Len(duplicate) :
            {duplicate[i].meta.duplicates[j].id :
               j \in 1..Len(duplicate[i].meta.duplicates)} = IdsDeclaredTwice
       /\ Range(collectOperationIdsFromOpenApi(input.openapi).opIds)
            = DeclaredOperationIds

\* A checked contract with an operation without id next to a key that is
\* no HTTP method.
C14_Witness ==
  /\ Done /\ ContractChecked
  /\ OperationsWithoutId # {}
  /\ ErrorsWithCode("OPENAPI_MISSING_OPERATION_ID") # <<>>
  /\ \E i \in 1..Len(input.openapi.ops) :
       input.openapi.ops[i].method \notin HttpMethods

-----------------------------------------------------------------------------
(* Properties of the state-layer event cross-check *)

\* The state document that stands for a screen key: the last one on it.
StateDocOn(k) ==
  input.stateFiles[CHOOSE i \in 1..Len(input.stateFiles) :
    /\ screenKey(input.stateFiles[i].id, input.stateFiles[i].context) = k
    /\ \A j \in (i + 1)..Len(input.stateFiles) :
         screenKey(input.stateFiles[j].id, input.stateFiles[j].context) # k]

StateScreenKeys ==
  {screenKey(input.stateFiles[i].id, input.stateFiles[i].context) :
     i \in 1..Len(input.stateFiles)}

EventKeysOn(k) ==
  {StateDocOn(k).events[j].key : j \in 1..Len(StateDocOn(k).events)}

TransitionIdsFrom(k) ==
  {transitions[i].label :
     i \in {j \in 1..Len(transitions) : transitions[j].fromKey = k}}

\* <<screen key, transition id>> with no event key of that id on the screen.
TransitionsWithoutEvent ==
  {p \in StateScreenKeys \X {Go, Back, Load} :
     p[2] \in TransitionIdsFrom(p[1]) \ EventKeysOn(p[1])}

\* <<screen key, event key>> with no transition of that id from the screen.
EventsWithoutTransition ==
  {p \in StateScreenKeys \X {Go, Back, Load} :
     p[2] \in EventKeysOn(p[1]) \ TransitionIdsFrom(p[1])}

WithCode(code) == SelectSeq(diagnostics, LAMBDA d : d.code = code)

\* The one grouped info diagnostic of a direction: its screens and count.
IsGroupedInfo(ds, pairs) ==
  /\ Len(ds) = IF pairs = {} THEN 0 ELSE 1
  /\ \A i \in 1..Len(ds) :
       /\ ds[i].level = "info"
       /\ ds[i].meta.count = Cardinality(pairs)
       /\ Cardinality(Range(ds[i].meta.screens))
            = Cardinality({p[1] : p \in pairs})

\* C15: for the screens that have a state document, the transition ids
\* without an event key and the event keys without a transition id are
\* each reported in one info-level diagnostic per direction
\* (L2_TRANSITION_NOT_IN_L4, L3_UNKNOWN_TRANSITION) that groups all such
\* screens, and never in an error-level diagnostic.
C15_EventMismatchIsGroupedInfo ==
  Done =>
    /\ IsGroupedInfo(WithCode("L2_TRANSITION_NOT_IN_L4"),
                     TransitionsWithoutEvent)
    /\ IsGroupedInfo(WithCode("L3_UNKNOWN_TRANSITION"),
                     EventsWithoutTransition)

\* Two state documents, with a mismatch in each direction.
C15_Witness ==
  /\ Done
  /\ Cardinality(StateScreenKeys) = 2
  /\ TransitionsWithoutEvent # {}
  /\ Cardinality(EventsWithoutTransition) = 2
  /\ WithCode("L2_TRANSITION_NOT_IN_L4") # <<>>
  /\ WithCode("L3_UNKNOWN_TRANSITION") # <<>>

-----------------------------------------------------------------------------
(* Properties of the unused-transition report *)

\* The ids of the transitions that no UI element has as its action.
UnusedTransitionIds ==
  {transitions[i].label : i \in 1..Len(transitions)}
    \ {uiActions[i].action : i \in 1..Len(uiActions)}

\* C16: for every transition whose id is the action of no UI element the
\* list validate returns holds an L2_TRANSITION_UNUSED diagnostic whose
\* meta.transitionId is that id, and no error-level one.
C16_UnusedTransitionCarriesId ==
  Done =>
    \A id \in UnusedTransitionIds :
      /\ \E i \in 1..Len(diagnostics) :
           /\ diagnostics[i].code = "L2_TRANSITION_UNUSED"
           /\ "transitionId" \in DOMAIN diagnostics[i].meta
           /\ diagnostics[i].meta.transitionId = id
      /\ \A i \in 1..Len(diagnostics) :
           diagnostics[i].code = "L2_TRANSITION_UNUSED"
             => diagnostics[i].level # "error"

\* What validate does report: one info-level L2_TRANSITION_UNUSED that
\* carries only the number of unused transitions.
UnusedTransitionsAreCounted ==
  Done =>
    LET ds == SelectSeq(diagnostics,
                        LAMBDA d : d.code = "L2_TRANSITION_UNUSED")
        n == Cardinality({i \in 1..Len(transitions) :
                            transitions[i].label \in UnusedTransitionIds})
    IN /\ Len(ds) = IF n = 0 THEN 0 ELSE 1
       /\ \A i \in 1..Len(ds) :
            ds[i].level = "info" /\ ds[i].meta = [count |-> n]

-----------------------------------------------------------------------------
(* The minimal consistent specification *)

\* One entry screen a with transition go to b, b marked exit, a UI document
\* on a with a button whose action is go, a state document on a with the
\* event key go; no contract configured; no dictionaries or complete ones.
IsScenarioA ==
  /\ input.flowFiles = BaseFlow
  /\ input.uiFiles = <<UiDoc(A, NoStr, OkLayout)>>
  /\ input.stateFiles
       = <<StateDoc(A, NoStr, <<>>, <<>>, <<Event(Go, "navigate", NoStr)>>, 0)>>
  /\ input.i18n \in {NoI18n, OkI18n}
  /\ input.config = NoOpenapiConfig
  /\ input.schemas = AllSchemas

\* C17: on the minimal consistent specification validate returns no
\* error-level diagnostic and no info-level one but the single-entry note.
C17_ScenarioAIsClean ==
  (ValidateReturned /\ IsScenarioA) =>
    /\ errorsOf(diagnostics) = <<>>
    /\ diagnostics = <<Diag("L2_INVALID", "info", "entry screen",
                            [entryKeys |-> <<screenKey(A, NoStr)>>])>>

C17_Witness ==
  /\ ValidateReturned /\ IsScenarioA
  /\ input.i18n = OkI18n
  /\ infosOf(diagnostics) # <<>>

-----------------------------------------------------------------------------
(* Properties of the schema compilation cache *)

\* The $id of the schema file a call was for (NoId: none, or no file).
IdOfCall(c) ==
  IF c.abs \in DOMAIN input.schemaFiles THEN input.schemaFiles[c.abs]
  ELSE NoId

\* C18: after any sequence of compileSchema calls, AJV was asked to compile
\* no absolute path twice and no $id twice; two calls for the same path, or
\* for schemas with the same $id, returned the same validator; and no call
\* failed on a $id that was registered already.
C18_CompiledAtMostOnce ==
  pc = "compiling" =>
    /\ \A i, j \in 1..Len(ajv.compiles) :
         i # j =>
           /\ ajv.compiles[i].abs # ajv.compiles[j].abs
           /\ ajv.compiles[i].id = NoId
                \/ ajv.compiles[i].id # ajv.compiles[j].id
    /\ \A i, j \in 1..Len(ajv.calls) :
         LET a == ajv.calls[i]
             b == ajv.calls[j]
         IN (a.error = "" /\ b.error = ""
               /\ (a.abs = b.abs
                     \/ (IdOfCall(a) # NoId /\ IdOfCall(a) = IdOfCall(b))))
              => a.validator = b.validator
    /\ \A i \in 1..Len(ajv.calls) : ajv.calls[i].error # "already exists"

\* Three calls: a path, the same path spelled differently, and another path
\* whose schema has the same $id; one compilation served them all.
C18_Witness ==
  /\ pc = "compiling"
  /\ Len(ajv.calls) = 3
  /\ ajv.calls[1].abs = ajv.calls[2].abs
  /\ ajv.calls[3].abs # ajv.calls[1].abs
  /\ IdOfCall(ajv.calls[1]) # NoId
  /\ IdOfCall(ajv.calls[3]) = IdOfCall(ajv.calls[1])
  /\ \A i \in 1..3 : ajv.calls[i].validator = 1
  /\ Len(ajv.compiles) = 1

-----------------------------------------------------------------------------
(* Properties of the check command and of duplicate documents *)

\* C19: the check command only validates: whatever the outcome, it runs
\* neither the mermaid nor the i18n generation and writes nothing under
\* the specs directory.
C19_CheckIsReadOnly ==
  (input.args.cmd = "check") => written = {}

\* The navigation documents whose composite key an earlier document has.
DuplicateFlowDocs ==
  {i \in 1..Len(input.flowFiles) :
     \E j \in 1..(i - 1) :
       screenKey(input.flowFiles[j].id, input.flowFiles[j].context)
         = screenKey(input.flowFiles[i].id, input.flowFiles[i].context)}

\* The edges the transitions of one document resolve to.
EdgesOfDoc(i) ==
  LET doc == input.flowFiles[i]
      rs == [k \in 1..Len(doc.transitions) |->
               ResolveTransition(screenKey(doc.id, doc.context),
                                 doc.transitions[k])]
      ok == SelectSeq(rs, LAMBDA r : r.ok)
  IN [k \in 1..Len(ok) |-> ok[k].edge]

\* The edges of the documents that are no duplicates, in file order.
EdgesOfFirstDocs ==
  Flatten([i \in 1..Len(input.flowFiles) |->
             IF i \in DuplicateFlowDocs THEN <<>> ELSE EdgesOfDoc(i)])

\* C20: a navigation document whose composite key duplicates an earlier
\* one yields one duplicate-key error, adds no screen to the registry, and
\* none of its transitions are in the builder's transition list.
C20_DuplicateIsSkipped ==
  Done =>
    /\ Len(SelectSeq(diagnostics,
                     LAMBDA d : d.level = "error"
                                /\ d.message = "Duplicate screen key"))
         = Cardinality(DuplicateFlowDocs)
    /\ Len(screens) = Len(input.flowFiles) - Cardinality(DuplicateFlowDocs)
    /\ transitions = EdgesOfFirstDocs

\* What the builder does: the duplicate is reported and registers no
\* screen, but its transitions are resolved like those of any document.
DuplicateKeepsItsTransitions ==
  Done =>
    /\ Len(screens) = Len(input.flowFiles) - Cardinality(DuplicateFlowDocs)
    /\ transitions
         = Flatten([i \in 1..Len(input.flowFiles) |-> EdgesOfDoc(i)])

-----------------------------------------------------------------------------
(* Properties of the builder's output *)

\* C21: in the transition list of the builder, transition ids are unique
\* per source screen: no two transitions from the same screen key carry
\* the same id.
C21_TransitionIdsUniquePerSource ==
  Done =>
    \A i, j \in 1..Len(transitions) :
      (i # j /\ transitions[i].fromKey = transitions[j].fromKey)
        => transitions[i].label # transitions[j].label

\* The outgoing transitions satisfy the invariant of a choice screen.
ChoiceWellFormed(outgoing) ==
  /\ \A i \in 1..Len(outgoing) :
       outgoing[i].guard # NoStr \/ outgoing[i].else
  /\ Cardinality({i \in 1..Len(outgoing) : outgoing[i].else}) <= 1

-----------------------------------------------------------------------------
(* Properties of the response root key resolver *)

Extracted == pc = "extracted"

\* The schema is treated as an allOf composition: no $ref, no properties of
\* its own, an allOf list.
IsPlainAllOf(schema) ==
  schema.ref = "" /\ ~schema.hasProperties /\ schema.hasAllOf

\* The members of an allOf list that resolve to keys by themselves.
ResolvingMembers(schema) ==
  {i \in 1..Len(schema.allOf) :
     extractRootKeysFromSchema(input, schema.allOf[i], 0).kind = "keys"}

\* C23: for a schema without own properties that has allOf, the root keys
\* are the union of the root keys of exactly the members that resolve to
\* keys (directly or through $ref); members that do not resolve are
\* ignored; if no member resolves the result is unresolved.
C23_AllOfIsUnionOfResolvingMembers ==
  (Extracted /\ IsPlainAllOf(input.schema))
    => LET hit == ResolvingMembers(input.schema)
       IN IF hit = {}
            THEN rootKeys.kind = "unresolved"
            ELSE rootKeys =
                   Keys(UNION {extractRootKeysFromSchema(
                                 input, input.schema.allOf[i], 0).keys :
                               i \in hit})

\* An allOf of a member with properties and a $ref member that resolves to
\* a schema with other properties has been resolved to both keys.
C23_Witness ==
  /\ Extracted
  /\ IsPlainAllOf(input.schema)
  /\ \E i \in 1..Len(input.schema.allOf) : input.schema.allOf[i].ref # ""
  /\ Cardinality(ResolvingMembers(input.schema)) = 2
  /\ rootKeys = Keys({Items, Other})

\* No activation is nested deeper than one past the limit.
NestingIsCapped ==
  \A k \in 1..Len(calls) : calls[k].depth <= RefDepthLimit + 1

\* An activation past the limit returns unresolved and calls nothing.
PastLimitReturnsUnresolved ==
  (pc = "extract" /\ calls # <<>> /\ Head(calls).depth > RefDepthLimit)
    => /\ rootKeys' = Unresolved("ref depth limit")
       /\ calls' = Tail(calls)

\* C24: root key resolution terminates for every contract document, also
\* when its $ref chains are cyclic (a schema referring to itself directly,
\* through other schemas, or inside allOf): the nesting never goes past
\* one above 16, and the call whose depth exceeds 16 returns unresolved.
C24_ResolutionTerminates ==
  /\ <>Extracted
  /\ []NestingIsCapped
  /\ [][PastLimitReturnsUnresolved]_vars

\* A schema that refers to itself has been resolved: the chain was cut at
\* the limit.
C24_Witness ==
  /\ Extracted
  /\ input.schema = RefSchema(R1)
  /\ input.components[R1] = RefSchema(R1)
  /\ rootKeys = Unresolved("ref depth limit")

\* The schema at the end of the $ref chain that starts at a schema, if the
\* chain ends: [found, schema].
RECURSIVE Dereference(_, _)
Dereference(schema, depth) ==
  IF schema.ref = "" THEN [found |-> TRUE, schema |-> schema]
  ELSE IF depth > RefDepthLimit \/ ~CanResolve(input.openapi, schema.ref)
    THEN [found |-> FALSE]
  ELSE Dereference(resolveJsonPointer(input.openapi, schema.ref), depth + 1)

\* The response of an operation has a shape that cannot be resolved: no
\* successful JSON body, a $ref that leads nowhere, or a oneOf/anyOf schema.
HasUnresolvedShape(o) ==
  \/ ~HasFirst2xxJsonSchema(o)
  \/ LET s == Dereference(pickFirst2xxJsonSchema(o), 0)
     IN \/ ~s.found
        \/ /\ ~s.schema.hasProperties
           /\ ~s.schema.hasAllOf
           /\ (s.schema.oneOf \/ s.schema.anyOf)

\* The operations of the contract that the registry takes up.
RegisteredOperations ==
  {i \in 1..Len(input.openapi.ops) :
     IsOperation(input.openapi.ops[i]) /\ HasOperationId(input.openapi.ops[i])}

\* C25: an operation whose response schema is oneOf/anyOf, has a $ref that
\* cannot be resolved, or has no successful JSON response body is recorded
\* in the registry as unresolved, never as an empty key set; so a
\* selectRoot reference to it never produces L4_INVALID_SELECT_ROOT.
C25_UnresolvedIsNeverEmpty ==
  (Done /\ ContractChecked) =>
    \A i \in RegisteredOperations :
      LET o == input.openapi.ops[i]
      IN HasUnresolvedShape(o) =>
           /\ RootKeysOf(o.operationId).kind = "unresolved"
           /\ DiagnosticsWhere(
                 LAMBDA d : /\ d.code = "L4_INVALID_SELECT_ROOT"
                            /\ d.meta.operationId = o.operationId) = {}

-----------------------------------------------------------------------------
(* Properties of the reachability traversal *)

IsInjective(seq) ==
  \A i, j \in 1..Len(seq) : seq[i] = seq[j] => i = j

\* Every key that was ever enqueued is in the reachable set, and was
\* enqueued once: it is either dequeued already or still in the queue.
EnqueuedAtMostOnce ==
  /\ IsInjective(dequeued \o queue)
  /\ Range(dequeued \o queue) \subseteq reachable
  /\ Len(dequeued) <= Len(screens)

\* C26: the reachability traversal terminates on every navigation graph,
\* also with cycles and self-transitions: each screen key is added to the
\* reachable set and enqueued at most once, so the number of dequeue steps
\* never exceeds the number of distinct screen keys.
C26_TraversalTerminates ==
  /\ []EnqueuedAtMostOnce
  /\ ((pc = "traverse") ~> (pc = "l3"))

\* The traversal of a two-screen cycle a -> b -> a is over: each screen
\* was dequeued once.
C26_Witness ==
  /\ pc = "l3"
  /\ Len(dequeued) = 2
  /\ \E i, j \in 1..Len(transitions) :
       /\ transitions[i].fromKey = transitions[j].toKey
       /\ transitions[j].fromKey = transitions[i].toKey
       /\ ~transitions[i].self

-----------------------------------------------------------------------------
(* Properties of the builder's registry and edges *)

\* The registered screens a transition can mean: those with the target id
\* and, if it names a targetContext, with that context.
TargetsOf(t) ==
  {i \in 1..Len(screens) :
     /\ screens[i].id = t.target
     /\ t.targetContext # NoStr => screens[i].context = t.targetContext}

\* The transitions of the documents, in file order, as [from, t].
DeclaredTransitions ==
  Flatten([i \in 1..Len(input.flowFiles) |->
             [k \in 1..Len(input.flowFiles[i].transitions) |->
                [from |-> screenKey(input.flowFiles[i].id,
                                    input.flowFiles[i].context),
                 t |-> input.flowFiles[i].transitions[k]]]])

\* C27: every transition the builder returns has its source key and its
\* target key in the screen registry returned with it; a transition whose
\* target cannot be resolved is not emitted; self is true exactly when the
\* source key equals the target key.
C27_EdgesStayInsideRegistry ==
  Done =>
    /\ \A i \in 1..Len(transitions) :
         /\ screensHas(transitions[i].fromKey)
         /\ screensHas(transitions[i].toKey)
         /\ transitions[i].self
              <=> (transitions[i].fromKey = transitions[i].toKey)
    /\ LET resolved == SelectSeq(DeclaredTransitions,
                                 LAMBDA d : Cardinality(TargetsOf(d.t)) = 1)
       IN /\ Len(transitions) = Len(resolved)
          /\ \A i \in 1..Len(resolved) :
               /\ transitions[i].fromKey = resolved[i].from
               /\ transitions[i].label = resolved[i].t.id
               /\ \E k \in TargetsOf(resolved[i].t) :
                    transitions[i].toKey = screens[k].key

\* The builder has returned a self edge and another edge, and has left out
\* a transition whose target it could not resolve.
C27_Witness ==
  /\ Done
  /\ \E i, j \in 1..Len(transitions) :
       transitions[i].self /\ ~transitions[j].self
  /\ Len(transitions) < Len(DeclaredTransitions)

\* The documents that repeat both the id and the context of an earlier one.
RepeatedScreens ==
  {j \in 1..Len(input.flowFiles) :
     \E i \in 1..(j - 1) :
       /\ input.flowFiles[i].id = input.flowFiles[j].id
       /\ input.flowFiles[i].context = input.flowFiles[j].context}

\* C28: screenKey is injective on (id, context): documents with different
\* (id, context) never get the same registry key, so a document is
\* reported as a duplicate only when both its id and its context equal
\* those of an earlier document.
C28_ScreenKeyIsInjective ==
  Done =>
    /\ \A i, j \in 1..Len(input.flowFiles) :
         screenKey(input.flowFiles[i].id, input.flowFiles[i].context)
           = screenKey(input.flowFiles[j].id, input.flowFiles[j].context)
         => /\ input.flowFiles[i].id = input.flowFiles[j].id
            /\ input.flowFiles[i].context = input.flowFiles[j].context
    /\ \A k \in 1..Len(diagnostics) :
         diagnostics[k].code = "L2_DUPLICATE_SCREEN_ID"
           => \E j \in RepeatedScreens :
                /\ input.flowFiles[j].id = diagnostics[k].meta.id
                /\ input.flowFiles[j].context = diagnostics[k].meta.context

\* The registered screens with an id.
VariantsOf(id) == {k \in 1..Len(screens) : screens[k].id = id}

\* The builder is resolving a transition and appends an edge for it.
EmitsEdge ==
  /\ pc = "collectTransitions"
  /\ fi <= Len(input.flowFiles)
  /\ ti <= Len(input.flowFiles[fi].transitions)
  /\ Len(transitions') = Len(transitions) + 1

\* C29: when a target id has two or more variants, a transition to it
\* resolves only if it names a targetContext equal to the context of one
\* of the variants; so a variant without context that coexists with other
\* variants of its id is never the resolved target.
C29_VariantsNeedTargetContext ==
  [][EmitsEdge =>
       LET t == input.flowFiles[fi].transitions[ti]
           e == transitions'[Len(transitions')]
       IN Cardinality(VariantsOf(t.target)) >= 2 =>
            /\ t.targetContext # NoStr
            /\ \E k \in VariantsOf(t.target) :
                 /\ screens[k].context = t.targetContext
                 /\ e.toKey = screens[k].key
            /\ \A k \in VariantsOf(t.target) :
                 screens[k].context = NoStr => e.toKey # screens[k].key]_vars

\* With the variants a and a[b] registered, one transition to a was
\* resolved to a[b] and another, naming no context, was refused.
C29_Witness ==
  /\ Done
  /\ \E i, j \in 1..Len(screens) :
       /\ screens[i].id = A /\ screens[i].context = NoStr
       /\ screens[j].id = A /\ screens[j].context = B
  /\ \E i \in 1..Len(transitions) : transitions[i].toKey = screenKey(A, B)
  /\ \E k \in 1..Len(diagnostics) :
       /\ diagnostics[k].message = "Ambiguous target"
       /\ diagnostics[k].meta.targetId = A

\* The operations whose response schema has its own properties next to an
\* allOf list, and whose result the registry holds (the last of their id).
PropsWithAllOfOperations ==
  {i \in RegisteredOperations :
     /\ HasFirst2xxJsonSchema(input.openapi.ops[i])
     /\ LET sc == pickFirst2xxJsonSchema(input.openapi.ops[i])
        IN sc.ref = "" /\ sc.hasProperties /\ sc.hasAllOf
     /\ \A j \in RegisteredOperations :
          j > i => input.openapi.ops[j].operationId
                     # input.openapi.ops[i].operationId}

\* C30: when a response schema has both its own properties and an allOf
\* list, the resolved root keys are exactly its own property names: the
\* allOf members contribute none, and a selectRoot naming a key that only
\* an allOf member has is reported as absent from the response root.
C30_OwnPropertiesShadowAllOf ==
  (Done /\ ContractChecked) =>
    \A i \in PropsWithAllOfOperations :
      LET o == input.openapi.ops[i]
          sc == pickFirst2xxJsonSchema(o)
      IN /\ RootKeysOf(o.operationId) = Keys(sc.properties)
         /\ input.config.openapi.checkSelectRoot =>
              \A r \in SelectRootReferences :
                (r.decl.operationId = o.operationId
                 /\ r.decl.selectRoot \notin sc.properties)
                => DiagnosticsWhere(
                     LAMBDA d : IsAboutSelectRootOf(
                                  d, r, "L4_INVALID_SELECT_ROOT")) # {}

\* A reference selects the root key `other` of an operation whose schema
\* has the property `items` and an allOf member with `other`: it has been
\* reported as L4_INVALID_SELECT_ROOT.
C30_Witness ==
  /\ Done
  /\ ContractChecked
  /\ input.config.openapi.checkSelectRoot
  /\ \E i \in PropsWithAllOfOperations :
       /\ input.openapi.ops[i].operationId = Op1
       /\ pickFirst2xxJsonSchema(input.openapi.ops[i])
            = PropsAllOfSchema({Items}, <<PropsSchema({Other})>>)
  /\ \E r \in SelectRootReferences : r.decl.selectRoot = Other
  /\ \E k \in 1..Len(diagnostics) :
       /\ diagnostics[k].code = "L4_INVALID_SELECT_ROOT"
       /\ diagnostics[k].meta.selectRoot = Other
       /\ diagnostics[k].meta.availableRoots = {Items}

=============================================================================
